---- MODULE Spec2Model ----
(***************************************************************************)
(* Model of the typed HTTP client layer (internal/client: Get, Post,       *)
(* setAuth, parseBasicAuth, Client.Request, and the pagination client's    *)
(* get, Post, pagedGet, pagedGetGeneric and paginate) and of the           *)
(* concurrent photo fetch orchestrator                                     *)
(* (photos.Service.GetPhotosConcurrently).                                 *)
(*                                                                         *)
(* Conventions used for Go values:                                         *)
(*   - a string is a sequence of one-character strings;                    *)
(*   - a pointer is a sequence of length at most one: <<>> is nil and      *)
(*     <<v>> points to v;                                                  *)
(*   - an error is the sequence of its layers, outermost first: <<>> is    *)
(*     the nil error and fmt.Errorf("msg: %w", cause) puts one layer in    *)
(*     front of cause; a layer holds the message and its %d / %s operands; *)
(*   - a map[string]string is a function from its keys.                    *)
(***************************************************************************)
EXTENDS Integers, Sequences, FiniteSets, TLC

VARIABLES
    call,        \* the last call of a typed request function, with its outcome
    first,       \* the first call a sequence of calls made, with its outcome
    built,       \* the last call of Client.Request, with its outcome
    pag,         \* the running call of paginate
    photoCall,   \* the last call of GetPhotos, through the service and the client
    handled,     \* the request the Photos handler is serving
    srv,         \* runServer: its position, the server, the pool
    n,           \* GetPhotosConcurrently: the concurrency argument (ids 1..n)
    mainPc,      \* GetPhotosConcurrently: position of the calling goroutine
    next,        \* GetPhotosConcurrently: next id the launch loop starts
    unit,        \* per id: position of that id's goroutine
    fetched,     \* per id: outcome of that id's fetch
    fetchCount,  \* per id: number of fetches issued for it
    wg,          \* the wait group counter
    ch,          \* buffer of the collecting channel
    chClosed,    \* whether the collecting channel is closed
    result,      \* the slice GetPhotosConcurrently builds and returns
    ctxCancelled,    \* whether the caller's context has been cancelled
    okBeforeCancel   \* ids whose fetch had succeeded when the context was cancelled

reqVars == <<call, first>>
buildVars == <<built>>
pagVars == <<pag>>
appVars == <<photoCall, handled, srv>>
clientVars == <<reqVars, buildVars, pagVars, appVars>>
orchVars == <<n, mainPc, next, unit, fetched, fetchCount, wg, ch, chClosed,
              result, ctxCancelled, okBeforeCancel>>
vars == <<call, first, built, pag, photoCall, handled, srv, n, mainPc, next, unit, fetched, fetchCount, wg, ch, chClosed,
          result, ctxCancelled, okBeforeCancel>>

(***************************************************************************)
(* Bounds of the model.                                                    *)
(***************************************************************************)
MaxBodyLen == 3
MaxCredLen == 3
MaxN == 3
MaxSegs == 2
MaxPages == 3

(***************************************************************************)
(* Program constants.                                                      *)
(***************************************************************************)
StatusOK == 200
StatusInternalServerError == 500
basicAuthCredentialParts == 2
AuthTypeToken == 0
AuthTypeBearer == 1
AuthTypeBasic == 2

AuthTypes == {AuthTypeToken, AuthTypeBearer, AuthTypeBasic}

SeqsUpTo(S, k) == UNION {[1..j -> S] : j \in 0..k}

Range(s) == {s[j] : j \in 1..Len(s)}

(***************************************************************************)
(* Errors.                                                                 *)
(***************************************************************************)
NoErr == <<>>

\* errors.New(msg) / fmt.Errorf(msg, operands...) without %w
NewErr(msg, operands) == <<[msg |-> msg, operands |-> operands]>>

\* fmt.Errorf(msg + ": %w", cause); with a nil cause the error is still
\* non-nil but wraps nothing
Wrap(msg, cause) == <<[msg |-> msg, operands |-> <<>>]>> \o cause

\* errors.Unwrap
Unwrap(err) == IF err = NoErr THEN NoErr ELSE Tail(err)

(***************************************************************************)
(* Input alphabets.                                                        *)
(***************************************************************************)
\* Characters credentials are built from: a name character and the colon.
CredChars == {"u", ":"}

\* Credential pointers: nil, or a string of at most MaxCredLen characters.
Credentials == {<<>>} \cup {<<c>> : c \in SeqsUpTo(CredChars, MaxCredLen)}

\* Response bodies are sequences of JSON tokens: the braces of an object,
\* one member ("a" stands for a key/value pair) and the member separator.
JsonTokens == {"{", "}", "a", ","}

Bodies == SeqsUpTo(JsonTokens, MaxBodyLen)

\* Status codes a response may carry.
StatusCodes == {199, 200, 201, 204, 300, 404, 500}

(***************************************************************************)
(* strings.Split(s, sep) for a one-character separator: the pieces of s    *)
(* between the occurrences of sep; a string without sep is one piece.      *)
(***************************************************************************)
RECURSIVE Split(_, _)
Split(s, sep) ==
    IF \A j \in 1..Len(s) : s[j] # sep
    THEN <<s>>
    ELSE LET k == CHOOSE j \in 1..Len(s) :
                      s[j] = sep /\ \A m \in 1..(j - 1) : s[m] # sep
         IN <<SubSeq(s, 1, k - 1)>> \o Split(SubSeq(s, k + 1, Len(s)), sep)

\* Variant: only a credential with too few pieces is refused.
WrongPartsTooFewOnly(parts) == Len(parts) < basicAuthCredentialParts

\* The check of the pieces: len(parts) != basicAuthCredentialParts.
WrongParts(parts) == Len(parts) # basicAuthCredentialParts

\* parseBasicAuth: the credential itself when it splits on ':' into exactly
\* basicAuthCredentialParts pieces, an error otherwise.
parseBasicAuth(credential) ==
    IF WrongParts(Split(credential, ":"))
    THEN [val |-> <<>>, err |-> NewErr("invalid basic auth credential", <<>>)]
    ELSE [val |-> credential, err |-> NoErr]

\* []byte(s): the byte of each character of a credential.
ByteOf(c) == IF c = ":" THEN 58 ELSE 117

Bytes(s) == [j \in 1..Len(s) |-> ByteOf(s[j])]

\* Variant: the unpadded encoding (base64.RawStdEncoding).
RECURSIVE Base64EncodeRaw(_)
Base64EncodeRaw(bs) ==
    IF Len(bs) = 0 THEN <<>>
    ELSE IF Len(bs) = 1
    THEN <<bs[1] \div 4, (bs[1] % 4) * 16>>
    ELSE IF Len(bs) = 2
    THEN <<bs[1] \div 4, (bs[1] % 4) * 16 + bs[2] \div 16, (bs[2] % 16) * 4>>
    ELSE <<bs[1] \div 4,
           (bs[1] % 4) * 16 + bs[2] \div 16,
           (bs[2] % 16) * 4 + bs[3] \div 64,
           bs[3] % 64>> \o Base64EncodeRaw(SubSeq(bs, 4, Len(bs)))

\* base64.StdEncoding.EncodeToString: the sequence of 6-bit digits of the
\* standard encoding, with 64 standing for the padding character '='.
RECURSIVE Base64Encode(_)
Base64Encode(bs) ==
    IF Len(bs) = 0 THEN <<>>
    ELSE IF Len(bs) = 1
    THEN <<bs[1] \div 4, (bs[1] % 4) * 16, 64, 64>>
    ELSE IF Len(bs) = 2
    THEN <<bs[1] \div 4, (bs[1] % 4) * 16 + bs[2] \div 16, (bs[2] % 16) * 4, 64>>
    ELSE <<bs[1] \div 4,
           (bs[1] % 4) * 16 + bs[2] \div 16,
           (bs[2] % 16) * 4 + bs[3] \div 64,
           bs[3] % 64>> \o Base64Encode(SubSeq(bs, 4, Len(bs)))

\* A header value: a literal prefix followed by a computed string.
HeaderValue(prefix, rest) == <<prefix, rest>>

\* Variant: a call without a credential is refused.
NilCredentialRefused(header) ==
    [err |-> NewErr("no credential provided", <<>>), header |-> header]

\* setAuth with a nil credential: it logs and returns nil, the map untouched.
NilCredentialResult(header) == [err |-> NoErr, header |-> header]

\* setAuth: the header map with the Authorization entry the scheme and the
\* credential ask for, or an error; a nil credential leaves the map alone.
setAuth(authType, credential, header) ==
    IF credential = <<>>
    THEN NilCredentialResult(header)
    ELSE LET c == credential[1] IN
         IF authType = AuthTypeToken
         THEN [err |-> NoErr,
               header |-> ("Authorization" :> HeaderValue("Token ", c)) @@ header]
         ELSE IF authType = AuthTypeBearer
         THEN [err |-> NoErr,
               header |-> ("Authorization" :> HeaderValue("Bearer ", c)) @@ header]
         ELSE IF authType = AuthTypeBasic
         THEN LET p == parseBasicAuth(c) IN
              IF p.err # NoErr
              THEN [err |-> Wrap("failed to parse basic auth", p.err),
                    header |-> header]
              ELSE [err |-> NoErr,
                    header |-> ("Authorization" :>
                                   HeaderValue("Basic ", Base64Encode(Bytes(p.val))))
                               @@ header]
         ELSE [err |-> NoErr, header |-> header]

(***************************************************************************)
(* json.Unmarshal of a response body into the target value.  A body is     *)
(* valid when it is an object: "{", members separated by ",", "}".  The    *)
(* decoded value is the set of the object's members; the zero value of the *)
(* target is the empty set.  A proper prefix of an object (the empty body  *)
(* included) is an unexpected end of input, anything else an invalid       *)
(* character; on an error the target keeps its zero value.                 *)
(***************************************************************************)
ZeroValue == {}

Alternating(s) ==
    \A j \in 1..Len(s) :
        IF j % 2 = 1 THEN s[j] = "a" ELSE s[j] = ","

ValidObject(b) ==
    /\ Len(b) >= 2
    /\ b[1] = "{"
    /\ b[Len(b)] = "}"
    /\ LET inner == SubSeq(b, 2, Len(b) - 1)
       IN Alternating(inner) /\ (Len(inner) = 0 \/ Len(inner) % 2 = 1)

TruncatedObject(b) ==
    \/ Len(b) = 0
    \/ b[1] = "{" /\ Alternating(Tail(b))

Unmarshal(b) ==
    IF ValidObject(b)
    THEN [err |-> NoErr,
          val |-> {b[j] : j \in {m \in 2..(Len(b) - 1) : m % 2 = 0}}]
    ELSE IF TruncatedObject(b)
    THEN [err |-> NewErr("unexpected end of JSON input", <<>>), val |-> ZeroValue]
    ELSE [err |-> NewErr("invalid character", <<>>), val |-> ZeroValue]

\* json.Marshal of the request body: a body value that cannot be serialised
\* (a channel, a function, a cyclic value) gives an error.
Marshal(marshalable) ==
    IF marshalable
    THEN [err |-> NoErr, val |-> <<"{", "a", "}">>]
    ELSE [err |-> NewErr("json: unsupported type", <<>>), val |-> <<>>]

(***************************************************************************)
(* The transport seen by Get and Post: HTTPRequester.Request returns       *)
(* either an error and no response, or a response with a status code and a *)
(* body whose read (io.ReadAll) may fail.                                  *)
(***************************************************************************)
ReadErr == NewErr("unexpected EOF", <<>>)

TransportErrors == {NewErr("failed to parse URL", <<>>), NewErr("service error", <<>>)}

Responses ==
    [StatusCode : StatusCodes, Body : Bodies, readFails : {FALSE}]
    \cup [StatusCode : StatusCodes, Body : {<<>>}, readFails : {TRUE}]

TransportReplies ==
    {[err |-> e, resp |-> <<>>] : e \in TransportErrors}
    \cup {[err |-> NoErr, resp |-> <<r>>] : r \in Responses}

(***************************************************************************)
(* Get and Post of internal/client/request.go.                             *)
(*                                                                         *)
(* An outcome holds the three results (resp, code, err) and what the call  *)
(* did on the way: the requests handed to the transport, whether the body  *)
(* was read, whether a decode was attempted, how often the body was closed.*)
(***************************************************************************)
Outcome(resp, code, err, sent, bodyRead, decoded, closed) ==
    [resp |-> resp, code |-> code, err |-> err, sent |-> sent,
     bodyRead |-> bodyRead, decoded |-> decoded, closed |-> closed]

\* Variant: the status check accepts the whole 2xx range.
StatusIsOKAny2xx(code) == code >= 200 /\ code < 300

\* The status check of Get and Post: r.StatusCode != http.StatusOK fails.
StatusIsOK(code) == code = StatusOK

\* Variant: a failed auth dispatch reports the internal-error code.
AuthFailureCodeInternal == StatusInternalServerError

\* The code returned with a failed auth dispatch.
AuthFailureCode == 0

\* The code returned when the request body cannot be marshaled.
MarshalFailureCode == 0

\* Variant: a transport error reports the absent status, as a failed auth
\* dispatch does.
TransportFailureCodeAbsent == AuthFailureCode

\* The code returned when the transport returns an error.
TransportFailureCode == StatusInternalServerError

\* The code returned when reading the body of a 200 response fails.
ReadFailureCode == StatusInternalServerError

\* Variant: a decode failure reports the status of the response, which is
\* 200 where the decode is reached.
DecodeFailureCodeOfResponse == StatusOK

\* The code returned when the body of a 200 response does not decode.
DecodeFailureCode == StatusInternalServerError

\* Variant: the error json.Unmarshal returns is ignored.
DecodeFailedIgnored(u) == FALSE

\* The check of the error json.Unmarshal returns.
DecodeFailed(u) == u.err # NoErr

\* Variant: the error also formats the body text.
UnexpectedStatusErrWithBody(r) ==
    NewErr("unexpected status code: %d, response: %s", <<r.StatusCode, r.Body>>)

\* The error of a response whose status is not accepted: it formats the
\* status code only.
UnexpectedStatusErr(r) == NewErr("unexpected status code: %d", <<r.StatusCode>>)

\* Variant: a request the transport failed on is sent a second time.
AttemptsRetried(req, tr) == IF tr.err # NoErr THEN <<req, req>> ELSE <<req>>

\* The requests a call hands to the transport: c.Request is called once,
\* whatever it returns.
Attempts(req, tr) == <<req>>

\* Variant: the close is deferred only after the status check.
DeferredAfterStatusCheck(path) == path # "status"

\* Whether defer r.Body.Close() is registered when the call returns on the
\* given path: it is registered right after the transport returned a
\* response, before the status check, so it runs on every return after it.
Deferred(path) == TRUE

\* The number of times the body is closed on the way out.
Closes(path) == IF Deferred(path) THEN 1 ELSE 0

\* What Get and Post do with the transport's reply (the code after the call
\* of c.Request, the same in both).
HandleReply(req, tr) ==
    IF tr.err # NoErr
    THEN Outcome(<<>>, TransportFailureCode, Wrap("failed to send request", tr.err),
                 Attempts(req, tr), FALSE, FALSE, 0)
    ELSE LET r == tr.resp[1] IN
         IF ~StatusIsOK(r.StatusCode)
         THEN Outcome(<<>>, r.StatusCode, UnexpectedStatusErr(r),
                      Attempts(req, tr), FALSE, FALSE, Closes("status"))
         ELSE IF r.readFails
         THEN Outcome(<<>>, ReadFailureCode, Wrap("failed to read response body", ReadErr),
                      Attempts(req, tr), TRUE, FALSE, Closes("read"))
         ELSE LET u == Unmarshal(r.Body) IN
              IF DecodeFailed(u)
              THEN Outcome(<<>>, DecodeFailureCode,
                           Wrap("failed to unmarshal response body", u.err),
                           Attempts(req, tr), TRUE, TRUE, Closes("decode"))
              ELSE Outcome(<<u.val>>, r.StatusCode, NoErr, Attempts(req, tr), TRUE, TRUE,
                           Closes("success"))

\* Variant: the header map is kept between calls: a call starts from the
\* map of the request the call before it sent.
GetHeaderKept ==
    IF call.fn = "Get" /\ call.out.sent # <<>>
    THEN call.out.sent[1].header
    ELSE "Accept" :> HeaderValue("application/json", <<>>)

\* The header map each call of Get builds anew.
GetHeader == "Accept" :> HeaderValue("application/json", <<>>)

\* The header map each call of Post builds anew.
PostHeader ==
    ("Accept" :> HeaderValue("application/json", <<>>))
    @@ ("Content-Type" :> HeaderValue("application/json", <<>>))

\* Get: the auth failure wraps the named result err, which is still nil
\* there, not the error setAuth returned.
Get(authType, credential, tr) ==
    LET header == GetHeader
        a == setAuth(authType, credential, header)
    IN IF a.err # NoErr
       THEN Outcome(<<>>, AuthFailureCode, Wrap("failed to set auth", NoErr),
                    <<>>, FALSE, FALSE, 0)
       ELSE HandleReply([method |-> "GET", header |-> a.header, body |-> <<>>], tr)

Post(authType, credential, marshalable, tr) ==
    LET header == PostHeader
        a == setAuth(authType, credential, header)
        jsonBody == Marshal(marshalable)
    IN IF a.err # NoErr
       THEN Outcome(<<>>, AuthFailureCode, Wrap("failed to set auth", a.err),
                    <<>>, FALSE, FALSE, 0)
       ELSE IF jsonBody.err # NoErr
       THEN Outcome(<<>>, MarshalFailureCode,
                    Wrap("failed to marshal request", jsonBody.err),
                    <<>>, FALSE, FALSE, 0)
       ELSE HandleReply([method |-> "POST", header |-> a.header,
                         body |-> <<jsonBody.val>>], tr)

(***************************************************************************)
(* The helpers of the pagination client: get, Post, pagedGet and           *)
(* pagedGetGeneric.  They return (payload, err) and no status code; tr is  *)
(* what Client.Get / Client.Post returned.                                 *)
(***************************************************************************)
PagedOutcome(resp, err, sent, bodyRead, decoded, closed) ==
    [resp |-> resp, err |-> err, sent |-> sent,
     bodyRead |-> bodyRead, decoded |-> decoded, closed |-> closed]

\* Variant: the pagination helpers accept 200 only, as Get and Post do.
StatusIs2xxOnly200(code) == code = StatusOK

\* The status check of the pagination helpers: 200 <= status < 300.
StatusIs2xx(code) == ~(code < 200 \/ code >= 300)

\* Their error for another status: it formats the code and the body text.
UnexpectedStatusBodyErr(r) ==
    NewErr("unexpected status code: %d, response: %s", <<r.StatusCode, r.Body>>)

\* The code after the client call, the same in the four helpers but for
\* the message of the decode error.
HandlePagedReply(req, tr, decodeMsg) ==
    LET r == tr.resp[1] IN
    IF r.readFails
    THEN PagedOutcome(<<>>, Wrap("failed to read response body", ReadErr),
                      <<req>>, TRUE, FALSE, 1)
    ELSE IF ~StatusIs2xx(r.StatusCode)
    THEN PagedOutcome(<<>>, UnexpectedStatusBodyErr(r), <<req>>, TRUE, FALSE, 1)
    ELSE LET u == Unmarshal(r.Body) IN
         IF u.err # NoErr
         THEN PagedOutcome(<<>>, Wrap(decodeMsg, u.err), <<req>>, TRUE, TRUE, 1)
         ELSE PagedOutcome(<<u.val>>, NoErr, <<req>>, TRUE, TRUE, 1)

get(tr) ==
    IF tr.err # NoErr
    THEN PagedOutcome(<<>>, tr.err, <<"GET">>, FALSE, FALSE, 0)
    ELSE HandlePagedReply("GET", tr, "failed to unmarshal response body")

pagedGet(tr) ==
    IF tr.err # NoErr
    THEN PagedOutcome(<<>>, Wrap("failed to make paged GET request", tr.err),
                      <<"GET">>, FALSE, FALSE, 0)
    ELSE HandlePagedReply("GET", tr, "failed to unmarshal paged response body")

pagedGetGeneric(tr) ==
    IF tr.err # NoErr
    THEN PagedOutcome(<<>>, Wrap("failed to make paged GET request", tr.err),
                      <<"GET">>, FALSE, FALSE, 0)
    ELSE HandlePagedReply("GET", tr, "failed to unmarshal paged response body")

PagedPost(marshalable, tr) ==
    LET bodyBytes == Marshal(marshalable) IN
    IF bodyBytes.err # NoErr
    THEN PagedOutcome(<<>>, Wrap("failed to marshal request body", bodyBytes.err),
                      <<>>, FALSE, FALSE, 0)
    ELSE IF tr.err # NoErr
    THEN PagedOutcome(<<>>, tr.err, <<"POST">>, FALSE, FALSE, 0)
    ELSE HandlePagedReply("POST", tr, "failed to unmarshal response body")

PagedHelpers == {"get", "pagedGet", "pagedGetGeneric", "PagedPost"}

PagedResult(fn, marshalable, tr) ==
    IF fn = "get" THEN get(tr)
    ELSE IF fn = "pagedGet" THEN pagedGet(tr)
    ELSE IF fn = "pagedGetGeneric" THEN pagedGetGeneric(tr)
    ELSE PagedPost(marshalable, tr)

(***************************************************************************)
(* Calls of the typed request functions.  Each action is one whole call:   *)
(* it draws the arguments and what the transport replies, and records the  *)
(* call with its outcome.  The reply is recorded only when the transport   *)
(* was called.  The functions keep nothing between calls: the record of a  *)
(* call is dropped (Discard) before the next call is made.                 *)
(***************************************************************************)
Consumed(out, tr) == IF out.sent = <<>> THEN <<>> ELSE <<tr>>

GetCall ==
    /\ call.fn = "none"
    /\ \E authType \in AuthTypes, credential \in Credentials, tr \in TransportReplies :
          LET out == Get(authType, credential, tr) IN
          call' = [fn |-> "Get", authType |-> authType, credential |-> credential,
                   marshalable |-> TRUE, tr |-> Consumed(out, tr), out |-> out]
    /\ UNCHANGED <<first, buildVars, pagVars, appVars, orchVars>>

PostCall ==
    /\ call.fn = "none"
    /\ \E authType \in AuthTypes, credential \in Credentials,
          marshalable \in BOOLEAN, tr \in TransportReplies :
          LET out == Post(authType, credential, marshalable, tr) IN
          call' = [fn |-> "Post", authType |-> authType, credential |-> credential,
                   marshalable |-> marshalable, tr |-> Consumed(out, tr), out |-> out]
    /\ UNCHANGED <<first, buildVars, pagVars, appVars, orchVars>>

PagedCall ==
    /\ call.fn = "none"
    /\ \E fn \in PagedHelpers, marshalable \in BOOLEAN, tr \in TransportReplies :
          LET out == PagedResult(fn, marshalable, tr) IN
          call' = [fn |-> fn, marshalable |-> (fn # "PagedPost") \/ marshalable,
                   tr |-> Consumed(out, tr), out |-> out]
    /\ UNCHANGED <<first, buildVars, pagVars, appVars, orchVars>>

\* setAuth called on the header map Get or Post has just built.
SetAuthCall ==
    /\ call.fn = "none"
    /\ \E authType \in AuthTypes, credential \in Credentials,
          header \in {GetHeader, PostHeader} :
          call' = [fn |-> "setAuth", authType |-> authType,
                   credential |-> credential, header |-> header,
                   out |-> setAuth(authType, credential, header)]
    /\ UNCHANGED <<first, buildVars, pagVars, appVars, orchVars>>

(***************************************************************************)
(* Sequences of calls of Get and Post: one call follows another, with any  *)
(* arguments and any reply of the transport, and the first call of the     *)
(* sequence is remembered to compare later calls with it.                  *)
(***************************************************************************)
\* Credentials of the calls of a sequence: none, two user:pass pairs and a
\* string without a colon.
SeqCredentials == {<<>>, << <<"u", ":">> >>, << <<":", "u">> >>, << <<"u">> >>}

\* Replies of the transport in a sequence: an error, a 200 response with a
\* valid body and a 404 response.
SeqReplies ==
    {[err |-> NewErr("service error", <<>>), resp |-> <<>>],
     [err |-> NoErr,
      resp |-> <<[StatusCode |-> 200, Body |-> <<"{", "a", "}">>, readFails |-> FALSE]>>],
     [err |-> NoErr,
      resp |-> <<[StatusCode |-> 404, Body |-> <<>>, readFails |-> FALSE]>>]}

Remembered(rec) == IF first.fn = "none" THEN rec ELSE first

SeqGetCall ==
    /\ \E authType \in AuthTypes, credential \in SeqCredentials, tr \in SeqReplies :
          LET out == Get(authType, credential, tr)
              rec == [fn |-> "Get", authType |-> authType, credential |-> credential,
                      marshalable |-> TRUE, tr |-> Consumed(out, tr), out |-> out]
          IN call' = rec /\ first' = Remembered(rec)
    /\ UNCHANGED <<buildVars, pagVars, appVars, orchVars>>

SeqPostCall ==
    /\ \E authType \in AuthTypes, credential \in SeqCredentials,
          marshalable \in BOOLEAN, tr \in SeqReplies :
          LET out == Post(authType, credential, marshalable, tr)
              rec == [fn |-> "Post", authType |-> authType, credential |-> credential,
                      marshalable |-> marshalable, tr |-> Consumed(out, tr), out |-> out]
          IN call' = rec /\ first' = Remembered(rec)
    /\ UNCHANGED <<buildVars, pagVars, appVars, orchVars>>

\* The caller is done with the results of the last call.
Discard ==
    /\ call.fn # "none"
    /\ call' = [fn |-> "none"]
    /\ UNCHANGED <<first, buildVars, pagVars, appVars, orchVars>>

(***************************************************************************)
(* Client.Request of client.go: it parses the target URL and the path,     *)
(* resolves the path against the target URL, creates the request, sets the *)
(* headers and the query parameters and hands the request to               *)
(* httpClient.Do.                                                          *)
(*                                                                         *)
(* A URL string is a sequence of tokens: an authority token (scheme and    *)
(* host), the separator "/", path segments, and the segment "%zz", an      *)
(* invalid percent escape.  The path argument is a path reference:         *)
(* absolute or relative, without empty segments.                           *)
(***************************************************************************)
GoodAuthority == "http://example.com"

\* The target URL of the Invalid URL test: its port is not a number.
BadPortAuthority == "http://[::1]:namedport"

BadEscape == "%zz"

SegTokens == {"a", ".."}

RECURSIVE Join(_)
Join(elems) ==
    IF elems = <<>> THEN <<>>
    ELSE IF Len(elems) = 1 THEN elems[1]
    ELSE elems[1] \o <<"/">> \o Join(Tail(elems))

PathString(abs, segs, trail) ==
    (IF abs THEN <<"/">> ELSE <<>>)
    \o Join([j \in 1..Len(segs) |-> <<segs[j]>>])
    \o (IF trail /\ segs # <<>> THEN <<"/">> ELSE <<>>)

Paths ==
    {PathString(abs, segs, trail) :
        abs \in BOOLEAN, segs \in SeqsUpTo(SegTokens, MaxSegs), trail \in BOOLEAN}

\* Target URLs: the good authority with no path or an absolute path, and
\* two strings url.Parse refuses.
TargetURLs ==
    {<<GoodAuthority>> \o q : q \in {r \in Paths : r = <<>> \/ r[1] = "/"}}
    \cup {<<BadPortAuthority>>, <<GoodAuthority, "/", BadEscape>>}

\* Path arguments: path references, and two of them url.Parse refuses.
RefPaths == Paths \cup {<<BadEscape>>, <<"/", BadEscape>>}

ZeroURL == [authority |-> <<>>, path |-> <<>>]

\* url.Parse: an invalid escape in the path and a port that is not a number
\* are errors; otherwise the authority, when there is one, and the path.
Parse(str) ==
    IF str # <<>> /\ str[1] = BadPortAuthority
    THEN [err |-> NewErr("invalid port after host", <<>>), url |-> ZeroURL]
    ELSE IF BadEscape \in Range(str)
    THEN [err |-> NewErr("invalid URL escape", <<>>), url |-> ZeroURL]
    ELSE IF str # <<>> /\ str[1] = GoodAuthority
    THEN [err |-> NoErr, url |-> [authority |-> <<str[1]>>, path |-> Tail(str)]]
    ELSE [err |-> NoErr, url |-> [authority |-> <<>>, path |-> str]]

LastIndex(str, t) ==
    IF \E j \in 1..Len(str) : str[j] = t
    THEN CHOOSE j \in 1..Len(str) :
            str[j] = t /\ \A m \in (j + 1)..Len(str) : str[m] # t
    ELSE 0

\* The elements of a path with the ".." elements applied: each drops the
\* element before it, if there is one.
RECURSIVE RemoveDots(_, _)
RemoveDots(elems, stack) ==
    IF elems = <<>> THEN stack
    ELSE RemoveDots(Tail(elems),
                    IF Head(elems) = <<"..">>
                    THEN IF Len(stack) <= 1 THEN <<>>
                         ELSE SubSeq(stack, 1, Len(stack) - 1)
                    ELSE Append(stack, Head(elems)))

\* Variant: the path is appended to the path of the target URL.
resolvePathConcat(base, ref) == base \o ref

\* The path of URL.ResolveReference: the reference itself when it is
\* absolute, else the base up to its last "/" followed by the reference;
\* then the ".." elements are applied and the result starts with one "/".
resolvePath(base, ref) ==
    LET full == IF ref = <<>> THEN base
                ELSE IF ref[1] # "/"
                THEN SubSeq(base, 1, LastIndex(base, "/")) \o ref
                ELSE ref
    IN IF full = <<>> THEN <<>>
       ELSE LET elems == Split(full, "/")
                r == <<"/">> \o Join(RemoveDots(elems, <<>>))
                     \o (IF elems[Len(elems)] = <<"..">> THEN <<"/">> ELSE <<>>)
            IN IF Len(r) > 1 /\ r[2] = "/" THEN Tail(r) ELSE r

\* URL.ResolveReference for a reference without scheme and host.
ResolveReference(u, ref) ==
    [authority |-> u.authority, path |-> resolvePath(u.path, ref.path)]

\* Header maps.  textproto.CanonicalMIMEHeaderKey, which
\* http.Header.Set applies to the key, maps "accept" to "Accept".
HeaderMaps ==
    {<<>>, "Accept" :> "x", "accept" :> "y", ("Accept" :> "x") @@ ("accept" :> "y")}

CanonicalMIMEHeaderKey(key) == IF key = "accept" THEN "Accept" ELSE key

\* The orders in which a range over the map may visit its keys.
Orders(m) ==
    {o \in SeqsUpTo(DOMAIN m, Cardinality(DOMAIN m)) :
        Len(o) = Cardinality(DOMAIN m) /\ Range(o) = DOMAIN m}

\* http.Header.Set: the value replaces what the canonical key held.
HeaderSet(h, key, val) == (CanonicalMIMEHeaderKey(key) :> val) @@ h

\* Client.SetHeaders: req.Header.Set for each entry, in the order of the range.
RECURSIVE SetHeaders(_, _, _)
SetHeaders(h, headers, order) ==
    IF order = <<>> THEN h
    ELSE SetHeaders(HeaderSet(h, Head(order), headers[Head(order)]),
                    headers, Tail(order))

\* Query maps: values are strings of a letter, the space and the plus sign.
QueryKeysSorted == <<"a", "id">>

QueryMaps ==
    {<<>>, "id" :> <<"v", " ", "+">>, "a" :> <<" ">>,
     ("id" :> <<"v", " ", "+">>) @@ ("a" :> <<" ">>)}

\* url.QueryEscape: a space becomes "+", a plus sign "%2B".
QueryEscape(v) ==
    [j \in 1..Len(v) |-> IF v[j] = " " THEN "+"
                         ELSE IF v[j] = "+" THEN "%2B" ELSE v[j]]

\* q.Add for each entry of the map, then Values.Encode: the parameters
\* key=value sorted by key, the values escaped.
Encode(query) ==
    LET keys == SelectSeq(QueryKeysSorted, LAMBDA k : k \in DOMAIN query)
    IN [j \in 1..Len(keys) |-> <<keys[j], QueryEscape(query[keys[j]])>>]

Methods == {"GET", "BAD METHOD"}

\* http.NewRequestWithContext refuses a method that is not a token.
ValidMethod(method) == method # "BAD METHOD"

DoReplies ==
    {[err |-> NewErr("service error", <<>>), resp |-> <<>>],
     [err |-> NoErr, resp |-> <<[StatusCode |-> StatusOK]>>]}

\* done: the requests handed to httpClient.Do.
BuildOutcome(resp, err, done) == [resp |-> resp, err |-> err, done |-> done]

\* Variant: the error of url.Parse is not looked at.
ParseFailedNever(p) == FALSE

\* The check of the error url.Parse returns.
ParseFailed(p) == p.err # NoErr

Request(method, targetURL, path, headers, order, query, reply) ==
    LET parsedURL == Parse(targetURL)
        refURL == Parse(path)
        urlPath == ResolveReference(parsedURL.url, refURL.url)
        req == [method |-> method,
                authority |-> urlPath.authority,
                path |-> urlPath.path,
                rawQuery |-> Encode(query),
                header |-> SetHeaders(<<>>, headers, order)]
    IN IF ParseFailed(parsedURL)
       THEN BuildOutcome(<<>>, Wrap("failed to parse URL", parsedURL.err), <<>>)
       ELSE IF ParseFailed(refURL)
       THEN BuildOutcome(<<>>, Wrap("failed to parse path", refURL.err), <<>>)
       ELSE IF ~ValidMethod(method)
       THEN BuildOutcome(<<>>, Wrap("failed to create request",
                                    NewErr("net/http: invalid method", <<>>)), <<>>)
       ELSE IF reply.err # NoErr
       THEN BuildOutcome(<<>>, Wrap("failed to perform request", reply.err), <<req>>)
       ELSE BuildOutcome(reply.resp, NoErr, <<req>>)

RequestCall ==
    /\ built.fn = "none"
    /\ \E method \in Methods, targetURL \in TargetURLs, path \in RefPaths,
          headers \in HeaderMaps, query \in QueryMaps, reply \in DoReplies :
          \E order \in Orders(headers) :
             built' = [fn |-> "Request", method |-> method, targetURL |-> targetURL,
                       path |-> path, headers |-> headers, query |-> query,
                       out |-> Request(method, targetURL, path, headers, order,
                                       query, reply)]
    /\ UNCHANGED <<reqVars, pagVars, appVars, orchVars>>

\* The caller is done with the results of the call.
RequestReturn ==
    /\ built.fn # "none"
    /\ built' = [fn |-> "none"]
    /\ UNCHANGED <<reqVars, pagVars, appVars, orchVars>>

(***************************************************************************)
(* paginate of the pagination client: it calls getPageFunc page after      *)
(* page, appends the items of each page to the results, and takes the page *)
(* value of the next call from the next-page URL of the page.              *)
(*                                                                         *)
(* The query argument is a Go map, which may be nil: isNil tells so and m  *)
(* holds the entries.  The map is shared with the caller: what paginate    *)
(* writes into it the caller sees.  A page value is a string; the          *)
(* NextPage of a page is a URL string, a sequence of tokens.               *)
(***************************************************************************)
NilMap == [isNil |-> TRUE, m |-> <<>>]

MapOf(m) == [isNil |-> FALSE, m |-> m]

QueryArgs ==
    {NilMap, MapOf(<<>>), MapOf("q" :> "v"), MapOf(("q" :> "v") @@ ("page" :> "1"))}

PageValues == {"2", "3"}

\* NextPage strings: empty, a URL without a page value, URLs with one, and
\* a URL url.Parse refuses.
NextPages ==
    {<<>>, <<GoodAuthority, "/", "a">>, <<GoodAuthority, "/", BadEscape>>}
    \cup {<<GoodAuthority, "/", "a", "?page=", v>> : v \in PageValues}

PageItems == {<<>>, <<"x">>, <<"y">>}

\* What getPageFunc returns: an error, or a page.
PageReplies ==
    {[err |-> NewErr("service error", <<>>), page |-> <<>>]}
    \cup {[err |-> NoErr, page |-> <<[Items |-> i, NextPage |-> t]>>] :
             i \in PageItems, t \in NextPages}

\* url.Parse(pageResp.NextPage) and nextPageURL.Query().Get("page"): the
\* value of the page parameter, the empty string when there is none.
ParseNextPage(str) ==
    IF BadEscape \in Range(str)
    THEN [err |-> NewErr("invalid URL escape", <<>>), page |-> ""]
    ELSE IF \E j \in 1..(Len(str) - 1) : str[j] = "?page="
    THEN [err |-> NoErr,
          page |-> str[(CHOOSE j \in 1..(Len(str) - 1) : str[j] = "?page=") + 1]]
    ELSE [err |-> NoErr, page |-> ""]

\* Variant: a page without items also ends the loop.
IsLastPageOrEmpty(pageResp) == pageResp.NextPage = <<>> \/ pageResp.Items = <<>>

\* The test that ends the loop: pageResp.NextPage == "".
IsLastPage(pageResp) == pageResp.NextPage = <<>>

\* paginate is called: results is empty and nextPage is "".
PaginateCall ==
    /\ pag.pc = "idle"
    /\ \E query \in QueryArgs :
          pag' = [pc |-> "loop", fn |-> "paginate", query0 |-> query, query |-> query,
                  nextPage |-> "", results |-> <<>>, calls |-> <<>>,
                  served |-> <<>>, ret |-> [results |-> <<>>, err |-> NoErr]]
    /\ UNCHANGED <<reqVars, buildVars, appVars, orchVars>>

\* Variant: the page entry is written on every iteration, empty or not.
WithPageAlways(query, nextPage) ==
    [query EXCEPT !.m = ("page" :> nextPage) @@ @]

\* Variant: an empty nextPage removes the page entry of the map.
WithPageDropsStale(query, nextPage) ==
    IF nextPage = ""
    THEN [query EXCEPT !.m = [k \in (DOMAIN @) \ {"page"} |-> @[k]]]
    ELSE [query EXCEPT !.m = ("page" :> nextPage) @@ @]

\* The map after query["page"] = nextPage, when nextPage is not "".
WithPage(query, nextPage) ==
    IF nextPage = "" THEN query
    ELSE [query EXCEPT !.m = ("page" :> nextPage) @@ @]

\* Variant: on an error the items gathered so far are returned with it.
FailedResultsPartial(results) == <<results>>

\* The results returned with an error: nil, whatever was gathered.
FailedResults(results) == <<>>

\* The rest of an iteration, from what getPageFunc returned.
AfterFetch(p, reply) ==
    LET q == WithPage(p.query, p.nextPage)
        called == [p EXCEPT !.query = q,
                             !.calls = Append(@, q),
                             !.served = Append(@, reply)]
    IN IF reply.err # NoErr
       THEN [called EXCEPT !.pc = "done",
                            !.ret = [results |-> FailedResults(p.results),
                                     err |-> Wrap("failed to get page", reply.err)]]
       ELSE LET pageResp == reply.page[1]
                results == p.results \o pageResp.Items
                nextPageURL == ParseNextPage(pageResp.NextPage)
            IN IF IsLastPage(pageResp)
               THEN [called EXCEPT !.pc = "done", !.results = results,
                                    !.ret = [results |-> <<results>>, err |-> NoErr]]
               ELSE IF nextPageURL.err # NoErr
               THEN [called EXCEPT !.pc = "done", !.results = results,
                                    !.ret = [results |-> FailedResults(results),
                                             err |-> Wrap("failed to parse next page URL",
                                                          nextPageURL.err)]]
               ELSE [called EXCEPT !.results = results,
                                    !.nextPage = nextPageURL.page]

\* One iteration of the loop.  The number of iterations is bounded by
\* MaxPages in the model only.
PaginateIteration ==
    /\ pag.pc = "loop"
    /\ pag.fn = "paginate"
    /\ Len(pag.calls) < MaxPages
    /\ ~(pag.nextPage # "" /\ pag.query.isNil)
    /\ \E reply \in PageReplies : pag' = AfterFetch(pag, reply)
    /\ UNCHANGED <<reqVars, buildVars, appVars, orchVars>>

(***************************************************************************)
(* paginateGeneric: the same loop over any page type R, with the items and *)
(* the page value of the next call taken from the page by getItems and     *)
(* getNextPage.  The page type of the model holds its items under data and *)
(* the next page value under cursor.                                       *)
(***************************************************************************)
GenericReplies ==
    {[err |-> NewErr("service error", <<>>), page |-> <<>>]}
    \cup {[err |-> NoErr, page |-> <<[data |-> i, cursor |-> c]>>] :
             i \in PageItems, c \in {""} \cup PageValues}

getItems(pageResp) == pageResp.data

getNextPage(pageResp) == pageResp.cursor

PaginateGenericCall ==
    /\ pag.pc = "idle"
    /\ \E query \in QueryArgs :
          pag' = [pc |-> "loop", fn |-> "paginateGeneric", query0 |-> query,
                  query |-> query, nextPage |-> "", results |-> <<>>, calls |-> <<>>,
                  served |-> <<>>, ret |-> [results |-> <<>>, err |-> NoErr]]
    /\ UNCHANGED <<reqVars, buildVars, appVars, orchVars>>

AfterFetchGeneric(p, reply) ==
    LET q == WithPage(p.query, p.nextPage)
        called == [p EXCEPT !.query = q,
                            !.calls = Append(@, q),
                            !.served = Append(@, reply)]
    IN IF reply.err # NoErr
       THEN [called EXCEPT !.pc = "done",
                           !.ret = [results |-> FailedResults(p.results),
                                    err |-> Wrap("failed to get page", reply.err)]]
       ELSE LET pageResp == reply.page[1]
                results == p.results \o getItems(pageResp)
                nextPage == getNextPage(pageResp)
            IN IF nextPage = ""
               THEN [called EXCEPT !.pc = "done", !.results = results,
                                   !.nextPage = nextPage,
                                   !.ret = [results |-> <<results>>, err |-> NoErr]]
               ELSE [called EXCEPT !.results = results, !.nextPage = nextPage]

PaginateGenericIteration ==
    /\ pag.pc = "loop"
    /\ pag.fn = "paginateGeneric"
    /\ Len(pag.calls) < MaxPages
    /\ ~(pag.nextPage # "" /\ pag.query.isNil)
    /\ \E reply \in GenericReplies : pag' = AfterFetchGeneric(pag, reply)
    /\ UNCHANGED <<reqVars, buildVars, appVars, orchVars>>

\* query["page"] = nextPage on a nil map: assignment to entry in nil map.
\* The write is the same in paginate and in paginateGeneric.
PaginatePanic ==
    /\ pag.pc = "loop"
    /\ pag.nextPage # "" /\ pag.query.isNil
    /\ pag' = [pag EXCEPT !.pc = "panicked"]
    /\ UNCHANGED <<reqVars, buildVars, appVars, orchVars>>

(***************************************************************************)
(* Service.GetPhotosConcurrently(ctx, n): one goroutine per id 1..n, each  *)
(* fetching its photo through Service.GetPhotos; a failed fetch is logged  *)
(* and dropped, a fetched photo's ID is handed over on a collecting        *)
(* channel; the caller waits for all goroutines, closes the channel and    *)
(* drains it into the result.                                              *)
(***************************************************************************)
Ids == 1..MaxN

\* The photo the client returns for an id.
PhotoOf(id) == [AlbumID |-> 1, ID |-> id, Title |-> "test"]

\* Variant: an unbuffered channel, which nobody receives from before the
\* wait is over.
ChanCapUnbuffered == n - n

\* Capacity of the collecting channel: one slot per launched goroutine.
ChanCap == n

\* The launch loop starts the goroutine of the next id.
Launch ==
    /\ mainPc = "launch"
    /\ next <= n
    /\ wg' = wg + 1
    /\ unit' = [unit EXCEPT ![next] = "fetching"]
    /\ fetchCount' = [fetchCount EXCEPT ![next] = @ + 1]
    /\ next' = next + 1
    /\ UNCHANGED <<clientVars, n, mainPc, fetched, ch, chClosed, result,
                   ctxCancelled, okBeforeCancel>>

\* Variant: the launch loop also stops as soon as a fetch has failed.
LaunchEndOnFailure ==
    /\ mainPc = "launch"
    /\ next > n \/ \E id \in Ids : fetched[id] = "error"
    /\ mainPc' = "wait"
    /\ UNCHANGED <<clientVars, n, next, unit, fetched, fetchCount, wg, ch, chClosed,
                   result, ctxCancelled, okBeforeCancel>>

\* The launch loop ends; the caller goes on to wait.
LaunchEnd ==
    /\ mainPc = "launch"
    /\ next > n
    /\ mainPc' = "wait"
    /\ UNCHANGED <<clientVars, n, next, unit, fetched, fetchCount, wg, ch, chClosed,
                   result, ctxCancelled, okBeforeCancel>>

\* The fetch of id returns a photo.
FetchOk(id) ==
    /\ unit[id] = "fetching"
    /\ fetched' = [fetched EXCEPT ![id] = "ok"]
    /\ unit' = [unit EXCEPT ![id] = "send"]
    /\ UNCHANGED <<clientVars, n, mainPc, next, fetchCount, wg, ch, chClosed, result,
                   ctxCancelled, okBeforeCancel>>

\* The fetch of id returns an error: it is logged and nothing is sent.
FetchFail(id) ==
    /\ unit[id] = "fetching"
    /\ fetched' = [fetched EXCEPT ![id] = "error"]
    /\ unit' = [unit EXCEPT ![id] = "exit"]
    /\ UNCHANGED <<clientVars, n, mainPc, next, fetchCount, wg, ch, chClosed, result,
                   ctxCancelled, okBeforeCancel>>

\* Variant: a fetch never looks at the context.
FetchIgnoresCancel(id) ==
    /\ FALSE
    /\ unit[id] = "fetching"
    /\ UNCHANGED vars

\* The fetch of id observes the cancelled context and returns its error.
FetchCancelled(id) ==
    /\ ctxCancelled
    /\ unit[id] = "fetching"
    /\ fetched' = [fetched EXCEPT ![id] = "cancelled"]
    /\ unit' = [unit EXCEPT ![id] = "exit"]
    /\ UNCHANGED <<clientVars, n, mainPc, next, fetchCount, wg, ch, chClosed, result,
                   ctxCancelled, okBeforeCancel>>

\* The goroutine of id hands the photo's ID over on the channel.
Send(id) ==
    /\ unit[id] = "send"
    /\ Len(ch) < ChanCap
    /\ ch' = Append(ch, PhotoOf(id).ID)
    /\ unit' = [unit EXCEPT ![id] = "exit"]
    /\ UNCHANGED <<clientVars, n, mainPc, next, fetched, fetchCount, wg, chClosed,
                   result, ctxCancelled, okBeforeCancel>>

\* The goroutine of id ends (its deferred wg.Done).
UnitDone(id) ==
    /\ unit[id] = "exit"
    /\ wg' = wg - 1
    /\ unit' = [unit EXCEPT ![id] = "done"]
    /\ UNCHANGED <<clientVars, n, mainPc, next, fetched, fetchCount, ch, chClosed,
                   result, ctxCancelled, okBeforeCancel>>

\* Variant: the caller does not wait for the goroutines.
WaitNoBarrier ==
    /\ mainPc = "wait"
    /\ chClosed' = TRUE
    /\ mainPc' = "collect"
    /\ UNCHANGED <<clientVars, n, next, unit, fetched, fetchCount, wg, ch, result,
                   ctxCancelled, okBeforeCancel>>

\* wg.Wait returns once every goroutine is done; the channel is closed.
Wait ==
    /\ mainPc = "wait"
    /\ wg = 0
    /\ chClosed' = TRUE
    /\ mainPc' = "collect"
    /\ UNCHANGED <<clientVars, n, next, unit, fetched, fetchCount, wg, ch, result,
                   ctxCancelled, okBeforeCancel>>

\* One iteration of the range over the channel.
Collect ==
    /\ mainPc = "collect"
    /\ Len(ch) > 0
    /\ result' = Append(result, Head(ch))
    /\ ch' = Tail(ch)
    /\ UNCHANGED <<clientVars, n, mainPc, next, unit, fetched, fetchCount, wg, chClosed,
                   ctxCancelled, okBeforeCancel>>

\* The range ends on the closed, empty channel; the result is returned.
Return ==
    /\ mainPc = "collect"
    /\ ch = <<>>
    /\ chClosed
    /\ mainPc' = "returned"
    /\ UNCHANGED <<clientVars, n, next, unit, fetched, fetchCount, wg, ch, chClosed,
                   result, ctxCancelled, okBeforeCancel>>

\* The caller's context is cancelled while the call is running.
Cancel ==
    /\ ~ctxCancelled
    /\ mainPc # "returned"
    /\ ctxCancelled' = TRUE
    /\ okBeforeCancel' = {id \in Ids : fetched[id] = "ok"}
    /\ UNCHANGED <<clientVars, n, mainPc, next, unit, fetched, fetchCount, wg, ch,
                   chClosed, result>>

(***************************************************************************)
(* Specifications.                                                         *)
(***************************************************************************)
OrchIdle ==
    /\ next = 1
    /\ unit = [id \in Ids |-> "none"]
    /\ fetched = [id \in Ids |-> "pending"]
    /\ fetchCount = [id \in Ids |-> 0]
    /\ wg = 0
    /\ ch = <<>>
    /\ chClosed = FALSE
    /\ result = <<>>
    /\ ctxCancelled = FALSE
    /\ okBeforeCancel = {}

(***************************************************************************)
(* PhotoClient.GetPhotos of internal/photos/client.go, and the GetPhotos   *)
(* of the photo service that calls it.                                     *)
(***************************************************************************)
MaxId == 12

PhotoBaseURL == "https://jsonplaceholder.typicode.com"

photoPath == "/photos"

\* The base URL a PhotoClient is built with.
BaseURLs == {PhotoBaseURL, "http://localhost:8080"}

AlbumIds == (0 - MaxId)..MaxId

\* What the transport returns to a photo fetch: an error, or a response
\* whose body is empty, a photo object, a truncated object or no object.
PhotoBodies == {<<>>, <<"{", "a", "}">>, <<"{", "a">>, <<"a">>}

PhotoReplies ==
    {tr \in TransportReplies : tr.err # NoErr \/ tr.resp[1].Body \in PhotoBodies}

Digits == <<"0", "1", "2", "3", "4", "5", "6", "7", "8", "9">>

\* The decimal digits of a natural number, most significant first.
RECURSIVE FormatUint(_)
FormatUint(u) ==
    IF u < 10 THEN <<Digits[u + 1]>>
    ELSE Append(FormatUint(u \div 10), Digits[(u % 10) + 1])

\* Variant: the sign of a negative id is dropped.
ItoaUnsigned(i) == IF i < 0 THEN FormatUint(0 - i) ELSE FormatUint(i)

\* strconv.Itoa
Itoa(i) == IF i < 0 THEN <<"-">> \o FormatUint(0 - i) ELSE FormatUint(i)

\* The credential PhotoClient.GetPhotos passes to Get: nil.
ClientCredential == <<>>

\* PhotoClient.GetPhotos: the result, and the requests the transport got,
\* each with the URL, the path and the query Get was called with.
ClientGetPhotos(baseURL, authType, id, tr) ==
    LET query == "albumId" :> Itoa(id)
        out == Get(authType, ClientCredential, tr)
    IN [photo |-> IF out.err # NoErr THEN <<>> ELSE out.resp,
        err |-> out.err,
        sent |-> [j \in 1..Len(out.sent) |->
                    [method |-> out.sent[j].method, url |-> baseURL, path |-> photoPath,
                     header |-> out.sent[j].header, query |-> query,
                     body |-> out.sent[j].body]]]

\* Variant: the service passes the client's error on as it is.
ServiceErrPassed(cause) == cause

\* The error the service returns for a failed fetch.
ServiceErr(cause) == Wrap("failed to get photos", cause)

\* The GetPhotos of the service: the client's photo, or its error wrapped.
ServiceGetPhotos(clientRet) ==
    IF clientRet.err # NoErr
    THEN [photo |-> <<>>, err |-> ServiceErr(clientRet.err)]
    ELSE [photo |-> clientRet.photo, err |-> NoErr]

GetPhotosCall ==
    /\ photoCall.fn = "none"
    /\ \E baseURL \in BaseURLs, authType \in AuthTypes, id \in AlbumIds,
          tr \in PhotoReplies :
          LET clientRet == ClientGetPhotos(baseURL, authType, id, tr) IN
          photoCall' = [fn |-> "GetPhotos", baseURL |-> baseURL, authType |-> authType,
                        id |-> id, tr |-> tr, clientRet |-> clientRet,
                        ret |-> ServiceGetPhotos(clientRet)]
    /\ UNCHANGED <<reqVars, buildVars, pagVars, handled, srv, orchVars>>

\* The results are dropped; the client and the service keep nothing.
GetPhotosDiscard ==
    /\ photoCall.fn # "none"
    /\ photoCall' = [fn |-> "none"]
    /\ UNCHANGED <<reqVars, buildVars, pagVars, handled, srv, orchVars>>

(***************************************************************************)
(* The Photos handler of internal/api/photos.go.                           *)
(***************************************************************************)
MaxParamLen == 3

StatusBadRequest == 400

\* The id path parameter is a string over signs, digits and a letter.
ParamChars == {"-", "+", "0", "1", "2", "a"}

Params == SeqsUpTo(ParamChars, MaxParamLen)

\* The value of a decimal digit, and of a string of decimal digits.
DigitValue(c) == CHOOSE d \in 0..9 : Digits[d + 1] = c

RECURSIVE DigitsValue(_)
DigitsValue(str) ==
    IF str = <<>> THEN 0
    ELSE 10 * DigitsValue(SubSeq(str, 1, Len(str) - 1)) + DigitValue(str[Len(str)])

\* strconv.Atoi: an optional sign, then one decimal digit at least and
\* nothing else; the strings of the model are too short to overflow.
Atoi(str) ==
    LET signed == str # <<>> /\ str[1] \in {"+", "-"}
        digits == IF signed THEN Tail(str) ELSE str
    IN IF digits = <<>> \/ \E j \in 1..Len(digits) : \A d \in 1..10 : Digits[d] # digits[j]
       THEN [err |-> NewErr("strconv.Atoi: parsing: invalid syntax", <<str>>), val |-> 0]
       ELSE [err |-> NoErr,
             val |-> IF str[1] = "-" THEN 0 - DigitsValue(digits) ELSE DigitsValue(digits)]

\* Variant: the error of the conversion is not looked at.
IdInvalidIgnored(a) == FALSE

\* The check of the error strconv.Atoi returns.
IdInvalid(a) == a.err # NoErr

\* What ps.GetPhotos returns: an error, or a photo.
ServiceReplies ==
    {[photo |-> <<>>, err |-> NewErr("failed to get photos", <<>>)]}
    \cup {[photo |-> <<p>>, err |-> NoErr] : p \in {"photo1", "photo2"}}

\* c.JSON(code, body)
Written(code, body) == [code |-> code, body |-> body]

\* The handler up to the call of the service: a parameter that is not an
\* integer is answered with 400 and the handler returns.
PhotosServe ==
    /\ handled.pc = "idle"
    /\ \E param \in Params :
          LET a == Atoi(param) IN
          handled' =
              IF IdInvalid(a)
              THEN [pc |-> "returned", param |-> param, calls |-> <<>>, reply |-> <<>>,
                    written |-> <<Written(StatusBadRequest, "error" :> "invalid id")>>]
              ELSE [pc |-> "calling", param |-> param, calls |-> <<a.val>>,
                    reply |-> <<>>, written |-> <<>>]
    /\ UNCHANGED <<reqVars, buildVars, pagVars, photoCall, srv, orchVars>>

\* ps.GetPhotos returns: 500 for an error, 200 and the photo otherwise.
PhotosServiceReturn ==
    /\ handled.pc = "calling"
    /\ \E reply \in ServiceReplies :
          handled' =
              [handled EXCEPT
                  !.pc = "returned",
                  !.reply = <<reply>>,
                  !.written =
                      IF reply.err # NoErr
                      THEN Append(@, Written(StatusInternalServerError,
                                             "error" :> "failed to get photos"))
                      ELSE Append(@, Written(StatusOK, reply.photo[1]))]
    /\ UNCHANGED <<reqVars, buildVars, pagVars, photoCall, srv, orchVars>>

\* The request is over; the handler keeps nothing of it.
PhotosDone ==
    /\ handled.pc = "returned"
    /\ handled' = [pc |-> "idle"]
    /\ UNCHANGED <<reqVars, buildVars, pagVars, photoCall, srv, orchVars>>

(***************************************************************************)
(* runServer of cmd/skeleton-go-api/commands/placeholder.go: a goroutine   *)
(* runs ListenAndServe and sends what it returns into errCh (capacity 1);  *)
(* the caller waits in a select for a signal on stop (capacity 1) or for a *)
(* value on errCh, then shuts the server down and closes the pool.         *)
(* srv.trace holds the calls of Shutdown and of pool.Close with their      *)
(* outcome, in the order they returned.                                    *)
(***************************************************************************)
ErrServerClosed == NewErr("http: Server closed", <<>>)

ListenErr == NewErr("listen tcp: address already in use", <<>>)

\* The pool runServer is given: a nil pool, a pool without DB, an open pool.
Pools == {"nil", "noDB", "open"}

\* DatabasePool.Close: nil for a nil pool or a pool without DB, else what
\* p.DB.Close() returns.
DatabasePoolClose(pool, dbErr) == IF pool \in {"nil", "noDB"} THEN NoErr ELSE dbErr

\* runServer is called: the goroutine is started, nothing has arrived.
RunServer ==
    /\ srv.pc = "idle"
    /\ \E pool \in Pools, cfgTimeout \in {0 - 1, 0, 5} :
          srv' = [pc |-> "select", pool |-> pool, cfgTimeout |-> cfgTimeout,
                  shutdownTimeout |-> 0, listen |-> "running", listenRet |-> NoErr,
                  errCh |-> <<>>, stop |-> FALSE, received |-> <<>>,
                  shutdownCalled |-> FALSE, trace |-> <<>>, ret |-> NoErr]
    /\ UNCHANGED <<reqVars, buildVars, pagVars, photoCall, handled, orchVars>>

\* The goroutine: ListenAndServe returns and its error is sent into errCh.
\* It returns ErrServerClosed once Shutdown was called, and the error of
\* the listener before.
ListenReturns ==
    /\ srv.pc # "idle"
    /\ srv.listen = "running"
    /\ LET e == IF srv.shutdownCalled THEN ErrServerClosed ELSE ListenErr IN
       srv' = [srv EXCEPT !.listen = "returned", !.listenRet = e,
                          !.errCh = Append(@, e)]
    /\ UNCHANGED <<reqVars, buildVars, pagVars, photoCall, handled, orchVars>>

\* os.Interrupt or SIGTERM is delivered into stop, when there is room.
Signal ==
    /\ srv.pc # "idle"
    /\ ~srv.stop
    /\ srv' = [srv EXCEPT !.stop = TRUE]
    /\ UNCHANGED <<reqVars, buildVars, pagVars, photoCall, handled, orchVars>>

\* The select: either case that is ready may be taken.
Select ==
    /\ srv.pc = "select"
    /\ \/ /\ srv.stop
          /\ srv' = [srv EXCEPT !.stop = FALSE, !.pc = "shutdown"]
       \/ /\ srv.errCh # <<>>
          /\ LET err == Head(srv.errCh) IN
             srv' = IF err # NoErr /\ err # ErrServerClosed
                    THEN [srv EXCEPT !.errCh = Tail(@), !.received = <<err>>,
                                     !.pc = "returned",
                                     !.ret = Wrap("server error", err)]
                    ELSE [srv EXCEPT !.errCh = Tail(@), !.received = <<err>>,
                                     !.pc = "shutdown"]
    /\ UNCHANGED <<reqVars, buildVars, pagVars, photoCall, handled, orchVars>>

\* Variant: the error of Shutdown is not looked at.
ShutdownFailedIgnored(err) == FALSE

\* The check of the error httpServer.Shutdown returns.
ShutdownFailed(err) == err # NoErr

\* httpServer.Shutdown(ctx) under the shutdown timeout (10 seconds when the
\* configured one is not positive): it returns nil, or the error of ctx.
Shutdown ==
    /\ srv.pc = "shutdown"
    /\ \E err \in {NoErr, NewErr("context deadline exceeded", <<>>)} :
          LET called == [srv EXCEPT !.shutdownTimeout =
                                        IF srv.cfgTimeout <= 0 THEN 10 ELSE srv.cfgTimeout,
                                    !.shutdownCalled = TRUE,
                                    !.trace = Append(@, [call |-> "Shutdown", err |-> err])]
          IN srv' = IF ShutdownFailed(err)
                    THEN [called EXCEPT !.pc = "returned",
                                        !.ret = Wrap("server shutdown failed", err)]
                    ELSE [called EXCEPT !.pc = "closing"]
    /\ UNCHANGED <<reqVars, buildVars, pagVars, photoCall, handled, orchVars>>

\* pool.Close() and the return of runServer.
PoolClose ==
    /\ srv.pc = "closing"
    /\ \E dbErr \in {NoErr, NewErr("sql: close failed", <<>>)} :
          LET err == DatabasePoolClose(srv.pool, dbErr) IN
          srv' = [srv EXCEPT !.pc = "returned",
                             !.trace = Append(@, [call |-> "Close", err |-> err]),
                             !.ret = IF err # NoErr THEN Wrap("db shutdown failed", err)
                                     ELSE NoErr]
    /\ UNCHANGED <<reqVars, buildVars, pagVars, photoCall, handled, orchVars>>

\* The typed request functions: no call made yet.
InitReq ==
    /\ call = [fn |-> "none"]
    /\ first = [fn |-> "none"]
    /\ built = [fn |-> "none"]
    /\ pag = [pc |-> "idle"]
    /\ photoCall = [fn |-> "none"]
    /\ handled = [pc |-> "idle"]
    /\ srv = [pc |-> "idle"]
    /\ n = 0
    /\ mainPc = "idle"
    /\ OrchIdle

NextReq == GetCall \/ PostCall \/ PagedCall \/ SetAuthCall \/ Discard

SpecReq == InitReq /\ [][NextReq]_vars

\* A sequence of calls of Get and Post.
NextSeq == SeqGetCall \/ SeqPostCall

SpecSeq == InitReq /\ [][NextSeq]_vars

\* Calls of Client.Request.
NextBuild == RequestCall \/ RequestReturn

SpecBuild == InitReq /\ [][NextBuild]_vars

\* Calls of GetPhotos.
NextPhoto == GetPhotosCall \/ GetPhotosDiscard

SpecPhoto == InitReq /\ [][NextPhoto]_vars

\* Requests served by the Photos handler.
NextHandler == PhotosServe \/ PhotosServiceReturn \/ PhotosDone

SpecHandler == InitReq /\ [][NextHandler]_vars

\* One run of runServer.
NextServer == RunServer \/ ListenReturns \/ Signal \/ Select \/ Shutdown \/ PoolClose

SpecServer == InitReq /\ [][NextServer]_vars

\* A call of paginate.
NextPag ==
    \/ PaginateCall
    \/ PaginateIteration
    \/ PaginateGenericCall
    \/ PaginateGenericIteration
    \/ PaginatePanic

SpecPag == InitReq /\ [][NextPag]_vars

\* GetPhotosConcurrently has just been called with some n.
InitOrch ==
    /\ call = [fn |-> "none"]
    /\ first = [fn |-> "none"]
    /\ built = [fn |-> "none"]
    /\ pag = [pc |-> "idle"]
    /\ photoCall = [fn |-> "none"]
    /\ handled = [pc |-> "idle"]
    /\ srv = [pc |-> "idle"]
    /\ n \in 0..MaxN
    /\ mainPc = "launch"
    /\ OrchIdle

NextOrch ==
    \/ Launch
    \/ LaunchEnd
    \/ \E id \in Ids : FetchOk(id)
    \/ \E id \in Ids : FetchFail(id)
    \/ \E id \in Ids : FetchCancelled(id)
    \/ \E id \in Ids : Send(id)
    \/ \E id \in Ids : UnitDone(id)
    \/ Wait
    \/ Collect
    \/ Return
    \/ Cancel

SpecOrch == InitOrch /\ [][NextOrch]_vars

\* The goroutines and the caller are scheduled fairly.
FairSteps ==
    /\ WF_vars(Launch)
    /\ WF_vars(LaunchEnd)
    /\ \A id \in Ids : WF_vars(Send(id))
    /\ \A id \in Ids : WF_vars(UnitDone(id))
    /\ WF_vars(Wait)
    /\ WF_vars(Collect)
    /\ WF_vars(Return)

\* Every fetch eventually returns, with a photo or an error.
FairOrch ==
    /\ SpecOrch
    /\ FairSteps
    /\ \A id \in Ids : WF_vars(FetchOk(id) \/ FetchFail(id) \/ FetchCancelled(id))

\* A fetch is only known to return once the context is cancelled.
FairCancelOrch ==
    /\ SpecOrch
    /\ FairSteps
    /\ \A id \in Ids : WF_vars(FetchCancelled(id))

(***************************************************************************)
(* Properties.                                                             *)
(***************************************************************************)
\* How often v occurs in the sequence s.
Count(s, v) == Cardinality({j \in 1..Len(s) : s[j] = v})

Returned == mainPc = "returned"

\* The last call was a Get or a Post of request.go.
PlainCall == call.fn \in {"Get", "Post"}

\* The last call is a Get or a Post whose transport call returned a response.
PlainResponse == PlainCall /\ call.tr # <<>> /\ call.tr[1].err = NoErr

\* The last call is a Get or a Post whose transport call returned an error.
PlainTransportError == PlainCall /\ call.tr # <<>> /\ call.tr[1].err # NoErr

\* The response of the last call.
TheResponse == call.tr[1].resp[1]

\* The last call is a pagination helper whose client call returned a response.
PagedResponse ==
    call.fn \in PagedHelpers /\ call.tr # <<>> /\ call.tr[1].err = NoErr

\* The credential of the last call is rejected by the Basic scheme.
BasicRejected ==
    /\ call.authType = AuthTypeBasic
    /\ call.credential # <<>>
    /\ Len(Split(call.credential[1], ":")) # 2

\* C1: when GetPhotosConcurrently has returned, its result holds the ID of
\* every id whose fetch succeeded exactly once, holds nothing else (no id
\* whose fetch failed, nothing twice), and nothing is left in the
\* collecting channel.
C1_ResultIsExactlyTheSuccesses ==
    Returned =>
        /\ \A id \in Ids : fetched[id] = "ok" => Count(result, PhotoOf(id).ID) = 1
        /\ \A j \in 1..Len(result) :
               \E id \in 1..n : fetched[id] = "ok" /\ result[j] = PhotoOf(id).ID
        /\ Len(result) = Cardinality({id \in Ids : fetched[id] = "ok"})
        /\ ch = <<>>

\* C1 witness: a call has returned after one fetch failed and another
\* succeeded.
C1_Witness ==
    /\ Returned
    /\ \E a, b \in 1..n : fetched[a] = "error" /\ fetched[b] = "ok"
    /\ Len(result) >= 1

\* C2: when every fetch eventually returns, GetPhotosConcurrently
\* eventually returns, whatever the mix of successes and failures.
C2_EventuallyReturns == <>Returned

\* C2 witness: a call with at least two ids has returned with an empty
\* result after every fetch failed.
C2_Witness ==
    /\ Returned
    /\ n >= 2
    /\ \A id \in 1..n : fetched[id] = "error"
    /\ result = <<>>

\* C3: no id is ever fetched more than once and no id outside 1..n is
\* fetched; once the launch loop is over every id of 1..n has been fetched
\* exactly once, whatever the other fetches returned; at the return every
\* launched fetch has completed.
C3_OneFetchPerId ==
    /\ \A id \in Ids : fetchCount[id] <= 1
    /\ \A id \in Ids : id > n => fetchCount[id] = 0
    /\ mainPc \in {"wait", "collect", "returned"} =>
           \A id \in 1..n : fetchCount[id] = 1
    /\ Returned => \A id \in 1..n : unit[id] = "done" /\ fetched[id] # "pending"

\* C3 witness: the first id's fetch failed before the last id was launched,
\* and the call returned with the last id's photo.
C3_Witness ==
    /\ Returned
    /\ n >= 2
    /\ fetched[1] = "error"
    /\ fetched[n] = "ok"
    /\ \A id \in 1..n : fetchCount[id] = 1
    /\ result = <<PhotoOf(n).ID>>

\* C4: once the context is cancelled the call eventually returns (every
\* fetch in flight observes the cancellation and ends), and the returned
\* result holds the ID of every id whose fetch had succeeded before the
\* cancellation.
C4_CancelTerminatesAndKeepsResults ==
    /\ ctxCancelled ~> Returned
    /\ [](Returned =>
            \A id \in okBeforeCancel : PhotoOf(id).ID \in Range(result))

\* C4 witness: a call has returned after a cancellation that found one
\* fetch already successful and made another one end.
C4_Witness ==
    /\ Returned
    /\ ctxCancelled
    /\ okBeforeCancel # {}
    /\ \E id \in 1..n : fetched[id] = "cancelled"

\* C5: when the response of a Get or Post has any status code other than
\* 200, the payload is nil, an error is returned, the code is the code of
\* the response, and no decode was attempted.
C5_Only200Succeeds ==
    (PlainResponse /\ TheResponse.StatusCode # 200) =>
        /\ call.out.resp = <<>>
        /\ call.out.err # NoErr
        /\ call.out.code = TheResponse.StatusCode
        /\ ~call.out.decoded

\* C5 witness: a Get answered with 204 returned an error and the code 204.
C5_Witness ==
    /\ call.fn = "Get"
    /\ PlainResponse
    /\ TheResponse.StatusCode = 204
    /\ call.out.code = 204
    /\ call.out.err # NoErr

\* C6: when the transport call of a Get or Post returns an error, the
\* payload is nil, the code is 500 and the error wraps the error of the
\* transport under "failed to send request"; a received response with a
\* status outside 2xx gives its own code and an error that is not a
\* "failed to send request" error.
C6_TransportFailure ==
    /\ PlainTransportError =>
           /\ call.out.resp = <<>>
           /\ call.out.code = 500
           /\ call.out.err # NoErr
           /\ Head(call.out.err).msg = "failed to send request"
           /\ Unwrap(call.out.err) = call.tr[1].err
    /\ (PlainResponse /\ ~(TheResponse.StatusCode \in 200..299)) =>
           /\ call.out.code = TheResponse.StatusCode
           /\ call.out.err # NoErr
           /\ Head(call.out.err).msg # "failed to send request"

\* C6 witness: a Post whose transport call failed with "service error".
C6_Witness ==
    /\ call.fn = "Post"
    /\ PlainTransportError
    /\ call.tr[1].err = NewErr("service error", <<>>)
    /\ call.out.code = 500

\* C7 as stated: whenever the transport returned a response, the code
\* handed back is the status code of that response.
C7_Original == PlainResponse => call.out.code = TheResponse.StatusCode

\* C7 as amended: whenever the transport returned a response, the code
\* handed back is the status code of that response, except that 500 is
\* handed back with the error when reading or decoding the body of a 200
\* response fails.
C7_CodeOfResponseExceptReadAndDecode ==
    PlainResponse =>
        IF TheResponse.StatusCode = 200
           /\ (TheResponse.readFails \/ ~ValidObject(TheResponse.Body))
        THEN call.out.code = 500 /\ call.out.err # NoErr
        ELSE call.out.code = TheResponse.StatusCode

\* C7 witness: a Get answered with 200 and a truncated body returned 500.
C7_Witness ==
    /\ call.fn = "Get"
    /\ PlainResponse
    /\ TheResponse.StatusCode = 200
    /\ TheResponse.Body = <<"{", "a">>
    /\ call.out.code = 500

\* C8 as stated: a Get or Post that fails before the transport is called
\* (auth dispatch, marshaling of the request body) reports the code 500.
C8_Original ==
    (PlainCall /\ (BasicRejected \/ ~call.marshalable)) => call.out.code = 500

\* C8 as amended: a Get or Post that fails before the transport is called
\* (auth dispatch, marshaling of the request body) reports the code 0, with
\* a nil payload and an error, and the transport is not called.
C8_PreflightReportsZero ==
    (PlainCall /\ (BasicRejected \/ ~call.marshalable)) =>
        /\ call.out.code = 0
        /\ call.out.resp = <<>>
        /\ call.out.err # NoErr
        /\ call.out.sent = <<>>

\* C8 witness: a Get under the Basic scheme with a credential without a
\* colon returned the code 0 and an error.
C8_Witness ==
    /\ call.fn = "Get"
    /\ call.authType = AuthTypeBasic
    /\ call.credential = << <<"u">> >>
    /\ call.out.code = 0
    /\ call.out.err # NoErr

C10_InvalidBodyIsAnError ==
    (/\ PlainResponse \/ PagedResponse
     /\ ~TheResponse.readFails
     /\ IF PlainCall THEN TheResponse.StatusCode = 200
                     ELSE TheResponse.StatusCode \in 200..299
     /\ ~ValidObject(TheResponse.Body)) =>
        /\ call.out.resp = <<>>
        /\ call.out.err # NoErr
        /\ Unwrap(call.out.err) # NoErr
        /\ Head(Unwrap(call.out.err)).msg
               \in {"unexpected end of JSON input", "invalid character"}
        /\ call.out.decoded

\* C10 witness: pagedGet answered with 204 and an empty body returned an
\* error and no payload.
C10_Witness ==
    /\ call.fn = "pagedGet"
    /\ PagedResponse
    /\ TheResponse.StatusCode = 204
    /\ TheResponse.Body = <<>>
    /\ ~TheResponse.readFails
    /\ call.out.resp = <<>>
    /\ call.out.err # NoErr


\* The cause parseBasicAuth reports.
InvalidCredentialCause ==
    [msg |-> "invalid basic auth credential", operands |-> <<>>]

\* C11: when the auth dispatch fails, Get and Post both return no payload
\* and a non-nil error whose chain reaches the invalid-credential cause.
\* Violated by Get, whose error wraps nothing.
C11_AuthFailureWrapsCause ==
    (PlainCall /\ BasicRejected) =>
        /\ call.out.resp = <<>>
        /\ call.out.err # NoErr
        /\ InvalidCredentialCause \in Range(call.out.err)

\* A Post whose auth dispatch failed: its error does reach the cause.
C11_Witness ==
    /\ call.fn = "Post"
    /\ BasicRejected
    /\ call.out.resp = <<>>
    /\ InvalidCredentialCause \in Range(call.out.err)

\* base64.StdEncoding.DecodeString on a sequence of 6-bit digits (64 is the
\* padding); <<-1>> stands for a malformed input.
RECURSIVE Base64Decode(_)
Base64Decode(ds) ==
    IF Len(ds) = 0 THEN <<>>
    ELSE IF Len(ds) < 4 \/ ds[1] = 64 \/ ds[2] = 64 THEN <<-1>>
    ELSE IF ds[3] = 64
    THEN IF Len(ds) = 4 /\ ds[4] = 64
         THEN <<ds[1] * 4 + ds[2] \div 16>>
         ELSE <<-1>>
    ELSE IF ds[4] = 64
    THEN IF Len(ds) = 4
         THEN <<ds[1] * 4 + ds[2] \div 16, (ds[2] % 16) * 16 + ds[3] \div 4>>
         ELSE <<-1>>
    ELSE <<ds[1] * 4 + ds[2] \div 16,
           (ds[2] % 16) * 16 + ds[3] \div 4,
           (ds[3] % 4) * 64 + ds[4]>> \o Base64Decode(SubSeq(ds, 5, Len(ds)))

\* The last call put its header map to use: setAuth returned it without an
\* error, or Get / Post handed it to the transport.
HeaderEmitted ==
    \/ call.fn = "setAuth" /\ call.out.err = NoErr
    \/ PlainCall /\ call.out.sent # <<>>

EmittedHeader ==
    IF call.fn = "setAuth" THEN call.out.header ELSE call.out.sent[1].header

\* C12: with a credential c present, the Authorization header is exactly
\* "Token " + c under Token, "Bearer " + c under Bearer, and "Basic " +
\* base64(c) under Basic for a c of the form user:pass, where decoding the
\* base64 part gives back c; the shape is the one of the call's scheme.
C12_AuthorizationShape ==
    /\ (HeaderEmitted /\ call.credential # <<>>) =>
          /\ "Authorization" \in DOMAIN EmittedHeader
          /\ LET v == EmittedHeader["Authorization"]
                 c == call.credential[1]
             IN /\ call.authType = AuthTypeToken => v = <<"Token ", c>>
                /\ call.authType = AuthTypeBearer => v = <<"Bearer ", c>>
                /\ call.authType = AuthTypeBasic =>
                      /\ v[1] = "Basic "
                      /\ Base64Decode(v[2]) = [j \in 1..Len(c) |-> ByteOf(c[j])]
    /\ (call.fn = "setAuth" /\ call.credential # <<>>
           /\ (call.authType = AuthTypeBasic => Count(call.credential[1], ":") = 1)) =>
          call.out.err = NoErr

\* setAuth under Basic with the credential u:u: the header is "Basic dTp1".
C12_Witness ==
    /\ call.fn = "setAuth"
    /\ call.authType = AuthTypeBasic
    /\ call.credential = << <<"u", ":", "u">> >>
    /\ call.out.err = NoErr
    /\ call.out.header["Authorization"] = <<"Basic ", <<29, 19, 41, 53>> >>

\* C13: with a nil credential, whatever the scheme, setAuth returns no
\* error and leaves the header map as it was, and Get / Post still send
\* their request, without an Authorization header.
C13_NilCredentialSendsBare ==
    /\ (call.fn = "setAuth" /\ call.credential = <<>>) =>
          /\ call.out.err = NoErr
          /\ call.out.header = call.header
          /\ "Authorization" \notin DOMAIN call.out.header
    /\ (PlainCall /\ call.credential = <<>> /\ call.marshalable) =>
          /\ Len(call.out.sent) = 1
          /\ "Authorization" \notin DOMAIN call.out.sent[1].header

\* A Post under Basic without a credential that was sent and answered.
C13_Witness ==
    /\ call.fn = "Post"
    /\ call.authType = AuthTypeBasic
    /\ call.credential = <<>>
    /\ Len(call.out.sent) = 1
    /\ DOMAIN call.out.sent[1].header = {"Accept", "Content-Type"}
    /\ call.out.err = NoErr

\* C14: under Basic with a credential present, setAuth fails exactly when
\* the credential does not split on ':' into two parts, that is when it
\* does not hold exactly one colon; on a failure the header map has no
\* Authorization entry.
C14_BasicFailsIffNotTwoParts ==
    (call.fn = "setAuth" /\ call.authType = AuthTypeBasic /\ call.credential # <<>>) =>
        /\ (call.out.err # NoErr) <=> (Count(call.credential[1], ":") # 1)
        /\ call.out.err # NoErr =>
              /\ "Authorization" \notin DOMAIN call.out.header
              /\ InvalidCredentialCause \in Range(call.out.err)

\* A credential with two colons is refused.
C14_Witness ==
    /\ call.fn = "setAuth"
    /\ call.authType = AuthTypeBasic
    /\ call.credential = << <<":", ":">> >>
    /\ call.out.err # NoErr
    /\ "Authorization" \notin DOMAIN call.out.header

\* C17: a call of Get or Post hands at most one request to the transport:
\* none when the auth dispatch or the marshaling fails, exactly one
\* otherwise, whatever the transport answers.
C17_AtMostOneTransportCall ==
    PlainCall =>
        Len(call.out.sent) = IF BasicRejected \/ ~call.marshalable THEN 0 ELSE 1

\* A call whose transport failed: the request was sent once, not again.
C17_Witness ==
    /\ PlainTransportError
    /\ Len(call.out.sent) = 1
    /\ call.out.err # NoErr

\* C19 as stated: the pagination helpers decode a response exactly when its
\* status is in 200..299, and for any other status return no payload and
\* an error carrying the status code and the body text.  Violated when the
\* body cannot be read: the read comes before the status check.
C19_Original ==
    PagedResponse =>
        /\ call.out.decoded <=> TheResponse.StatusCode \in 200..299
        /\ TheResponse.StatusCode \notin 200..299 =>
              /\ call.out.resp = <<>>
              /\ \E j \in 1..Len(call.out.err) :
                    call.out.err[j].operands =
                        <<TheResponse.StatusCode, TheResponse.Body>>

\* C19: when the body of the response was read, the pagination helpers
\* decode it exactly when the status is in 200..299 (a valid body then is
\* the payload), and for any other status return no payload and the error
\* of the status code and the body text, without decoding; when the read
\* fails they return the read error whatever the status.
C19_PagedAccepts2xxOfReadBody ==
    PagedResponse =>
        IF TheResponse.readFails
        THEN /\ call.out.resp = <<>>
             /\ ~call.out.decoded
             /\ call.out.err = Wrap("failed to read response body", ReadErr)
        ELSE /\ call.out.decoded <=> TheResponse.StatusCode \in 200..299
             /\ (TheResponse.StatusCode \in 200..299 /\ ValidObject(TheResponse.Body)) =>
                   call.out.resp # <<>> /\ call.out.err = NoErr
             /\ TheResponse.StatusCode \notin 200..299 =>
                   /\ call.out.resp = <<>>
                   /\ call.out.err =
                         <<[msg |-> "unexpected status code: %d, response: %s",
                            operands |-> <<TheResponse.StatusCode, TheResponse.Body>>]>>

\* pagedGet accepted a 204 response with a valid body.
C19_Witness ==
    /\ call.fn = "pagedGet"
    /\ PagedResponse
    /\ TheResponse.StatusCode = 204
    /\ ~TheResponse.readFails
    /\ call.out.decoded
    /\ call.out.resp # <<>>

\* Two calls of the same function with the same arguments.
SameArguments(a, b) ==
    /\ a.fn = b.fn
    /\ a.authType = b.authType
    /\ a.credential = b.credential
    /\ a.marshalable = b.marshalable

\* C15: in any sequence of calls of Get and Post, a call with the arguments
\* of the first call sends the request the first call sent, and given the
\* same reply of the transport returns the same payload, status code and
\* error, whatever calls came in between; the Authorization header of every
\* request sent is there exactly when that call has a credential and
\* carries that call's credential.
C15_CallsKeepNoState ==
    /\ (PlainCall /\ first.fn # "none" /\ SameArguments(call, first)) =>
          /\ call.out.sent = first.out.sent
          /\ call.tr = first.tr =>
                /\ call.out.resp = first.out.resp
                /\ call.out.code = first.out.code
                /\ call.out.err = first.out.err
    /\ (PlainCall /\ call.out.sent # <<>>) =>
          LET h == call.out.sent[1].header IN
          /\ "Authorization" \in DOMAIN h <=> call.credential # <<>>
          /\ call.credential # <<>> =>
                IF call.authType = AuthTypeBasic
                THEN Base64Decode(h["Authorization"][2])
                        = [j \in 1..Len(call.credential[1]) |->
                              ByteOf(call.credential[1][j])]
                ELSE h["Authorization"][2] = call.credential[1]

\* The first call was sent with a credential, the last one, of the same
\* function and scheme, without: its request carries no Authorization.
C15_Witness ==
    /\ first.fn = "Get"
    /\ call.fn = "Get"
    /\ first.authType = call.authType
    /\ first.credential # <<>>
    /\ first.out.sent # <<>>
    /\ "Authorization" \in DOMAIN first.out.sent[1].header
    /\ call.credential = <<>>
    /\ call.out.sent # <<>>
    /\ "Authorization" \notin DOMAIN call.out.sent[1].header
    /\ call.out.resp # <<>>

\* A string url.Parse refuses.
Unparsable(str) == BadEscape \in Range(str) \/ BadPortAuthority \in Range(str)

\* C16: when the target URL or the path cannot be parsed, Client.Request
\* returns an error and no response, and hands no request to Do.
C16_UnparsableNeverReachesDo ==
    (built.fn = "Request" /\ (Unparsable(built.targetURL) \/ Unparsable(built.path))) =>
        /\ built.out.err # NoErr
        /\ built.out.resp = <<>>
        /\ built.out.done = <<>>

\* The target URL of the Invalid URL test with a valid path and method.
C16_Witness ==
    /\ built.fn = "Request"
    /\ built.targetURL = <<BadPortAuthority>>
    /\ built.path = <<"/", "a">>
    /\ built.method = "GET"
    /\ built.out.err[1].msg = "failed to parse URL"
    /\ built.out.done = <<>>

\* RFC 3986, 5.2.4: remove_dot_segments, on the input and output buffers.
RECURSIVE RemoveDotSegments(_, _)
RemoveDotSegments(in, out) ==
    LET dropLast == SubSeq(out, 1, LastIndex(out, "/") - 1) IN
    IF in = <<>> THEN out
    ELSE IF Len(in) >= 2 /\ in[1] = ".." /\ in[2] = "/"
    THEN RemoveDotSegments(SubSeq(in, 3, Len(in)), out)
    ELSE IF Len(in) >= 3 /\ in[1] = "/" /\ in[2] = ".." /\ in[3] = "/"
    THEN RemoveDotSegments(SubSeq(in, 3, Len(in)), dropLast)
    ELSE IF in = <<"/", "..">>
    THEN RemoveDotSegments(<<"/">>, dropLast)
    ELSE IF in = <<"..">>
    THEN RemoveDotSegments(<<>>, out)
    ELSE IF in[1] = "/" /\ Len(in) >= 2 /\ in[2] # "/"
    THEN RemoveDotSegments(SubSeq(in, 3, Len(in)), out \o SubSeq(in, 1, 2))
    ELSE RemoveDotSegments(Tail(in), Append(out, in[1]))

\* RFC 3986, 5.2.2 and 5.2.3: the path of the target for a reference
\* without scheme and authority against a base with an authority.
Rfc3986Path(base, ref) ==
    IF ref = <<>> THEN RemoveDotSegments(base, <<>>)
    ELSE IF ref[1] = "/" THEN RemoveDotSegments(ref, <<>>)
    ELSE IF base = <<>> THEN RemoveDotSegments(<<"/">> \o ref, <<>>)
    ELSE RemoveDotSegments(SubSeq(base, 1, LastIndex(base, "/")) \o ref, <<>>)

\* Decoding of a query value: "+" is a space, "%2B" a plus sign.
QueryUnescape(v) ==
    [j \in 1..Len(v) |-> IF v[j] = "+" THEN " "
                         ELSE IF v[j] = "%2B" THEN "+" ELSE v[j]]

\* A call of Client.Request that handed a request to Do.
Handed == built.fn = "Request" /\ built.out.done # <<>>

TheRequest == built.out.done[1]

\* The request URL is the resolution of the path against the target URL,
\* and each key of the query map is a parameter that decodes to its value.
ResolvedAndQueried ==
    /\ Len(built.out.done) = 1
    /\ TheRequest.authority = <<built.targetURL[1]>>
    /\ TheRequest.path = Rfc3986Path(Tail(built.targetURL), built.path)
    /\ \A k \in DOMAIN built.query :
          \E j \in 1..Len(TheRequest.rawQuery) :
             /\ TheRequest.rawQuery[j][1] = k
             /\ QueryUnescape(TheRequest.rawQuery[j][2]) = built.query[k]
    /\ Len(TheRequest.rawQuery) = Cardinality(DOMAIN built.query)

\* C18 as stated: for a parsable target URL and path, the request handed
\* to Do has the resolved URL, every key of the query map as an encoded
\* parameter, and every key of the header map as a header with its value.
\* Violated by a header map with two keys of the same canonical form.
C18_Original ==
    Handed =>
        /\ ResolvedAndQueried
        /\ \A k \in DOMAIN built.headers :
              /\ CanonicalMIMEHeaderKey(k) \in DOMAIN TheRequest.header
              /\ TheRequest.header[CanonicalMIMEHeaderKey(k)] = built.headers[k]

\* C18: for a parsable target URL and path, the request handed to Do has
\* the resolved URL and every key of the query map as an encoded parameter;
\* its headers are the canonical forms of the keys of the header map, each
\* with the value of a key of that form: the value of the key itself when
\* no other key of the map has the same canonical form.
C18_ResolvedUrlHeadersQuery ==
    Handed =>
        /\ ResolvedAndQueried
        /\ DOMAIN TheRequest.header =
              {CanonicalMIMEHeaderKey(k) : k \in DOMAIN built.headers}
        /\ \A c \in DOMAIN TheRequest.header :
              \E k \in DOMAIN built.headers :
                 /\ CanonicalMIMEHeaderKey(k) = c
                 /\ TheRequest.header[c] = built.headers[k]

\* Target URL http://example.com/a/a, path ../a, handed to Do as
\* http://example.com/a?a=+&id=v+%2B with the header Accept.
C18_Witness ==
    /\ Handed
    /\ built.targetURL = <<GoodAuthority, "/", "a", "/", "a">>
    /\ built.path = <<"..", "/", "a">>
    /\ TheRequest.path = <<"/", "a">>
    /\ built.headers = ("accept" :> "y")
    /\ TheRequest.header = ("Accept" :> "y")
    /\ TheRequest.rawQuery = << <<"a", <<"+">> >>, <<"id", <<"v", "+", "%2B">> >> >>
    /\ built.out.err = NoErr

\* The items of the pages served so far, in the order of the fetches.
RECURSIVE ItemsOf(_)
ItemsOf(served) ==
    IF served = <<>> THEN <<>>
    ELSE IF Head(served).err # NoErr THEN ItemsOf(Tail(served))
    ELSE Head(served).page[1].Items \o ItemsOf(Tail(served))

NoFetchFailed == \A j \in 1..Len(pag.served) : pag.served[j].err = NoErr

TokenOf(j) == pag.served[j].page[1].NextPage

LastServed == Len(pag.served)

\* paginate returned after the page with the first empty token, with the
\* items of all the pages fetched.
ReturnedAllPages ==
    /\ pag.pc = "done"
    /\ pag.ret.err = NoErr
    /\ LastServed >= 1
    /\ TokenOf(LastServed) = <<>>
    /\ \A j \in 1..(LastServed - 1) : TokenOf(j) # <<>>
    /\ Len(pag.calls) = LastServed
    /\ pag.ret.results = <<ItemsOf(pag.served)>>

\* C20 as stated: when no fetch fails, paginate stops only at the first
\* page with an empty token, after one fetch per page, and returns the
\* items of the pages in fetch order.  Violated by a token that is not a
\* parsable URL and by a nil query map.
C20_Original ==
    (pag.pc \in {"done", "panicked"} /\ pag.fn = "paginate" /\ NoFetchFailed) =>
        ReturnedAllPages

\* C20: paginate calls getPageFunc once per page.  It returns without an
\* error exactly at the first page with an empty token, after one fetch
\* for each page up to it, with the items of these pages in fetch order.
\* A token that does not parse ends the call with an error and a nil
\* result; with a nil query map the call panics when a page value is to be
\* written.  In every other case it goes on fetching, whether or not the
\* token was seen before.
C20_StopsAtFirstEmptyToken ==
    (pag.pc # "idle" /\ pag.fn = "paginate") =>
        /\ Len(pag.calls) = LastServed
        /\ (pag.pc = "done" /\ pag.ret.err = NoErr) => ReturnedAllPages
        /\ (LastServed >= 1 /\ NoFetchFailed) =>
              IF TokenOf(LastServed) = <<>>
              THEN ReturnedAllPages
              ELSE IF BadEscape \in Range(TokenOf(LastServed))
              THEN pag.pc = "done" /\ pag.ret.err # NoErr /\ pag.ret.results = <<>>
              ELSE \/ pag.pc = "loop"
                   \/ pag.pc = "panicked" /\ pag.query.isNil /\ pag.nextPage # ""
        /\ pag.pc = "panicked" =>
              /\ pag.query.isNil
              /\ LastServed >= 1
              /\ NoFetchFailed
              /\ "?page=" \in Range(TokenOf(LastServed))

\* Three pages, the first two with the same token: paginate fetched all
\* three and returned their items in order.
C20_Witness ==
    /\ pag.pc = "done"
    /\ pag.fn = "paginate"
    /\ ReturnedAllPages
    /\ LastServed = 3
    /\ TokenOf(1) = TokenOf(2)
    /\ pag.ret.results = << <<"x", "y", "x">> >>

\* The page query value a next-page URL carries, "" when it carries none.
PageValueOf(token) ==
    IF Len(token) >= 2 /\ token[Len(token) - 1] = "?page="
    THEN token[Len(token)]
    ELSE ""

\* The query map m with its page entry set to v and nothing else changed.
SetPage(q, v) ==
    [isNil |-> q.isNil,
     m |-> [k \in (DOMAIN q.m) \cup {"page"} |-> IF k = "page" THEN v ELSE q.m[k]]]

\* C21 as stated: the first fetch of paginate gets the caller's query map,
\* and every later fetch gets a map whose page entry is the page value of
\* the URL the preceding page returned.  Violated by a URL without a page
\* value: nothing is written then.
C21_Original ==
    (pag.pc # "idle" /\ pag.fn = "paginate" /\ Len(pag.calls) >= 1) =>
        /\ pag.calls[1] = pag.query0
        /\ \A j \in 2..Len(pag.calls) :
              /\ "page" \in DOMAIN pag.calls[j].m
              /\ pag.calls[j].m["page"] = PageValueOf(TokenOf(j - 1))

\* C21: the first fetch of paginate gets the caller's query map as given.
\* A later fetch, after a page whose URL carries a page value that is not
\* empty, gets the map of the preceding fetch with the page entry set to
\* that value; after a URL that carries none, the page entry is not
\* written: it is what it was for the preceding fetch.
C21_PageEntryFollowsNextURL ==
    (pag.pc # "idle" /\ pag.fn = "paginate" /\ Len(pag.calls) >= 1) =>
        /\ pag.calls[1] = pag.query0
        /\ \A j \in 2..Len(pag.calls) :
              LET v == PageValueOf(TokenOf(j - 1))
              IN IF v # ""
                 THEN pag.calls[j] = SetPage(pag.calls[j - 1], v)
                 ELSE /\ ("page" \in DOMAIN pag.calls[j].m) =
                            ("page" \in DOMAIN pag.calls[j - 1].m)
                      /\ "page" \in DOMAIN pag.calls[j].m =>
                            pag.calls[j].m["page"] = pag.calls[j - 1].m["page"]

\* Three fetches: the caller's map with q only, then page 2, then page 3.
C21_Witness ==
    /\ pag.pc = "done"
    /\ pag.fn = "paginate"
    /\ pag.ret.err = NoErr
    /\ Len(pag.calls) = 3
    /\ pag.calls[1] = MapOf("q" :> "v")
    /\ PageValueOf(TokenOf(1)) = "2"
    /\ PageValueOf(TokenOf(2)) = "3"
    /\ pag.calls[2].m["page"] = "2"
    /\ pag.calls[3].m["page"] = "3"

\* A page of paginate that came back with a URL that parses, is not empty
\* and has no page value.
NoPageValue(j) ==
    /\ pag.served[j].err = NoErr
    /\ TokenOf(j) # <<>>
    /\ ~Unparsable(TokenOf(j))
    /\ PageValueOf(TokenOf(j)) = ""

\* C28: after a page of paginate with a URL that is not empty and has no
\* page value the loop goes on, with nothing to write, and the fetch that
\* follows gets the query map exactly as the preceding fetch got it.
C28_SamePageRequestedAgain ==
    (pag.pc # "idle" /\ pag.fn = "paginate") =>
        \A j \in 1..LastServed :
            NoPageValue(j) =>
                /\ j = LastServed => (pag.pc = "loop" /\ pag.nextPage = "")
                /\ j < Len(pag.calls) => pag.calls[j + 1] = pag.calls[j]

\* Page 2 was asked for twice: its URL had no page value.
C28_Witness ==
    /\ pag.pc # "idle"
    /\ pag.fn = "paginate"
    /\ Len(pag.calls) = 3
    /\ PageValueOf(TokenOf(1)) = "2"
    /\ NoPageValue(2)
    /\ pag.calls[2].m["page"] = "2"
    /\ pag.calls[3] = pag.calls[2]

\* C22: when paginate or paginateGeneric has returned, the query map the
\* caller passed holds exactly the keys and values it held at the call.
\* Violated: the page value is written into the caller's own map.
C22_QueryMapUnchanged ==
    pag.pc = "done" => pag.query = pag.query0

\* The caller's map had no page entry at the call and holds page 2 after
\* paginateGeneric returned.
C22_Witness ==
    /\ pag.pc = "done"
    /\ pag.fn = "paginateGeneric"
    /\ pag.ret.err = NoErr
    /\ pag.query0 = MapOf("q" :> "v")
    /\ pag.query = MapOf(("page" :> "2") @@ ("q" :> "v"))

\* The items of the pages paginateGeneric was given, in fetch order.
RECURSIVE GenericItemsOf(_)
GenericItemsOf(served) ==
    IF served = <<>> THEN <<>>
    ELSE IF Head(served).err # NoErr THEN GenericItemsOf(Tail(served))
    ELSE getItems(Head(served).page[1]) \o GenericItemsOf(Tail(served))

CursorOf(j) == getNextPage(pag.served[j].page[1])

\* C23: paginateGeneric fetches once per page; a fetch after the first
\* carries the getNextPage value of the preceding page as its page entry;
\* while no fetch fails the loop goes on after a page with a value that is
\* not empty, and at the first page with an empty one the call returns the
\* getItems of all pages in fetch order.  Violated with a nil query map:
\* the write of the page value panics.
C23_GenericFollowsCallerFunctions ==
    (pag.pc # "idle" /\ pag.fn = "paginateGeneric") =>
        /\ Len(pag.calls) = LastServed
        /\ \A j \in 2..Len(pag.calls) :
              /\ "page" \in DOMAIN pag.calls[j].m
              /\ pag.calls[j].m["page"] = CursorOf(j - 1)
        /\ (LastServed >= 1 /\ NoFetchFailed) =>
              IF CursorOf(LastServed) = ""
              THEN /\ pag.pc = "done"
                   /\ pag.ret.err = NoErr
                   /\ pag.ret.results = <<GenericItemsOf(pag.served)>>
              ELSE pag.pc = "loop"

\* paginateGeneric was called with a nil map and panicked after its first
\* page, which named a next page.
C23_Witness ==
    /\ pag.pc = "panicked"
    /\ pag.fn = "paginateGeneric"
    /\ pag.query0 = NilMap
    /\ LastServed = 1
    /\ CursorOf(1) = "2"

\* C23 holds when the caller's map is not nil.
C23_HoldsWithoutNilMap ==
    (pag.pc # "idle" /\ ~pag.query0.isNil) => C23_GenericFollowsCallerFunctions

\* Three pages through paginateGeneric with a map that is not nil.
C23_ThreePages ==
    /\ pag.pc = "done"
    /\ pag.fn = "paginateGeneric"
    /\ ~pag.query0.isNil
    /\ LastServed = 3
    /\ pag.ret.results = << <<"x", "y", "x">> >>

\* The j-th fetch failed, or (paginate only) its page came with a URL that
\* is not empty and does not parse.
FetchOrParseFailed(j) ==
    \/ pag.served[j].err # NoErr
    \/ /\ pag.fn = "paginate"
       /\ TokenOf(j) # <<>>
       /\ Unparsable(TokenOf(j))

\* C27: in paginate and paginateGeneric a failed fetch, and in paginate a
\* next-page URL that does not parse, is the last thing that happens: no
\* fetch follows it, and the call has returned an error with a nil result,
\* whatever was gathered from the pages before.
C27_ErrorStopsWithNilResult ==
    pag.pc # "idle" =>
        \A j \in 1..LastServed :
            FetchOrParseFailed(j) =>
                /\ j = LastServed
                /\ Len(pag.calls) = j
                /\ pag.pc = "done"
                /\ pag.ret.err # NoErr
                /\ pag.ret.results = <<>>

\* Two pages with items, then the third fetch failed: the items are gone.
C27_Witness ==
    /\ pag.pc = "done"
    /\ pag.fn = "paginate"
    /\ LastServed = 3
    /\ ItemsOf(SubSeq(pag.served, 1, 2)) = <<"x", "y">>
    /\ pag.results = <<"x", "y">>
    /\ pag.served[3].err # NoErr
    /\ pag.ret.err = Wrap("failed to get page", pag.served[3].err)
    /\ pag.ret.results = <<>>

\* C29: a Get or a Post whose transport call returned a response closes
\* the body of that response exactly once, whether it returns for the
\* status, for a failed read, for a failed decode or with the payload; a
\* call whose transport call returned an error, or that made none, closes
\* nothing.
C29_BodyClosedOnce ==
    PlainCall =>
        IF PlainResponse
        THEN call.out.closed = 1
        ELSE call.out.closed = 0

\* A Post that got a status other than 200 closed the body once although it read nothing.
C29_Witness ==
    /\ call.fn = "Post"
    /\ PlainResponse
    /\ ~StatusIsOK(TheResponse.StatusCode)
    /\ ~call.out.bodyRead
    /\ call.out.closed = 1

\* The last GetPhotos call, and whether its fetch failed: the transport
\* returned an error, a status other than 200, a body that cannot be read
\* or a body that is not a photo object.
PhotoFetched == photoCall.fn = "GetPhotos"

PhotoResponse == photoCall.tr.resp[1]

PhotoFetchFailed ==
    \/ photoCall.tr.err # NoErr
    \/ PhotoResponse.StatusCode # 200
    \/ PhotoResponse.readFails
    \/ ~ValidObject(PhotoResponse.Body)

\* The error Get returns for the failure, by its kind.
PhotoCause ==
    IF photoCall.tr.err # NoErr
    THEN <<[msg |-> "failed to send request", operands |-> <<>>]>> \o photoCall.tr.err
    ELSE IF PhotoResponse.StatusCode # 200
    THEN <<[msg |-> "unexpected status code: %d",
            operands |-> <<PhotoResponse.StatusCode>>]>>
    ELSE IF PhotoResponse.readFails
    THEN <<[msg |-> "failed to read response body", operands |-> <<>>]>> \o ReadErr
    ELSE <<[msg |-> "failed to unmarshal response body", operands |-> <<>>]>>
         \o Unmarshal(PhotoResponse.Body).err

PhotosPrefix == [msg |-> "failed to get photos", operands |-> <<>>]

\* C24 as stated: when the fetch fails, the GetPhotos of the client and
\* the GetPhotos of the service both return no photo and the error
\* "failed to get photos: " followed by the cause.  Violated by the
\* client's GetPhotos, which returns the error of Get as it is.
C24_Original ==
    (PhotoFetched /\ PhotoFetchFailed) =>
        /\ photoCall.clientRet.photo = <<>>
        /\ photoCall.clientRet.err = <<PhotosPrefix>> \o PhotoCause
        /\ photoCall.ret.photo = <<>>
        /\ photoCall.ret.err = <<PhotosPrefix>> \o PhotoCause

\* C24: when the fetch fails, the GetPhotos of the client returns no
\* photo and the error of Get as it is, and the GetPhotos of the service
\* returns no photo and "failed to get photos: " followed by that error;
\* neither returns a status code.
C24_ServiceWrapsClientPasses ==
    (PhotoFetched /\ PhotoFetchFailed) =>
        /\ photoCall.clientRet.photo = <<>>
        /\ photoCall.clientRet.err = PhotoCause
        /\ DOMAIN photoCall.clientRet = {"photo", "err", "sent"}
        /\ photoCall.ret.photo = <<>>
        /\ photoCall.ret.err = <<PhotosPrefix>> \o PhotoCause
        /\ DOMAIN photoCall.ret = {"photo", "err"}

\* The photo endpoint answered 404.
C24_Witness ==
    /\ PhotoFetched
    /\ photoCall.tr.err = NoErr
    /\ PhotoResponse.StatusCode = 404
    /\ photoCall.clientRet.err =
          <<[msg |-> "unexpected status code: %d", operands |-> <<404>>]>>
    /\ photoCall.ret.err =
          <<PhotosPrefix, [msg |-> "unexpected status code: %d", operands |-> <<404>>]>>
    /\ photoCall.ret.photo = <<>>

\* str is the decimal numeral of i: a minus sign for a negative number,
\* then digits without a leading zero.
IsDecimalOf(str, i) ==
    LET digits == IF i < 0 THEN Tail(str) ELSE str
    IN /\ str # <<>>
       /\ (i < 0) = (str[1] = "-")
       /\ digits # <<>>
       /\ \A j \in 1..Len(digits) : \E d \in 1..10 : Digits[d] = digits[j]
       /\ Len(digits) > 1 => digits[1] # "0"
       /\ DigitsValue(digits) = (IF i < 0 THEN 0 - i ELSE i)

\* C25: the GetPhotos of the client hands the transport one request: a
\* GET with the client's base URL, the path /photos, a query that holds
\* the decimal numeral of the id under albumId and nothing else, and no
\* Authorization header, whatever the scheme of the client.  On a 200
\* response whose body is a photo object it returns the decoded photo and
\* no error.
C25_OneGetForThePhoto ==
    PhotoFetched =>
        LET sent == photoCall.clientRet.sent IN
        /\ Len(sent) = 1
        /\ sent[1].method = "GET"
        /\ sent[1].url = photoCall.baseURL
        /\ sent[1].path = "/photos"
        /\ DOMAIN sent[1].query = {"albumId"}
        /\ IsDecimalOf(sent[1].query["albumId"], photoCall.id)
        /\ "Authorization" \notin DOMAIN sent[1].header
        /\ ~PhotoFetchFailed =>
              /\ photoCall.clientRet.err = NoErr
              /\ photoCall.clientRet.photo = <<Unmarshal(PhotoResponse.Body).val>>

\* A client built for the Basic scheme fetched the photos of album -12.
C25_Witness ==
    /\ PhotoFetched
    /\ photoCall.authType = AuthTypeBasic
    /\ photoCall.id = 0 - 12
    /\ photoCall.clientRet.sent[1].query = ("albumId" :> <<"-", "1", "2">>)
    /\ ~PhotoFetchFailed
    /\ photoCall.clientRet.err = NoErr
    /\ photoCall.clientRet.photo # <<>>

\* The path parameter of the request is the numeral of an integer: digits
\* after at most one sign.
IsInteger(param) ==
    \E k \in {0, 1} :
        /\ Len(param) > k
        /\ k = 1 => param[1] \in {"+", "-"}
        /\ \A j \in (k + 1)..Len(param) : param[j] \in {"0", "1", "2"}

\* C26: the Photos handler answers a path id that is not an integer with
\* 400 without calling the photo service, a service error with 500 and a
\* service success with 200 and the photo as body; it calls the service
\* once at most, and when it has returned it has written one response.
C26_HandlerStatusCodes ==
    handled.pc # "idle" =>
        /\ Len(handled.calls) = (IF IsInteger(handled.param) THEN 1 ELSE 0)
        /\ handled.pc = "calling" => handled.written = <<>>
        /\ handled.pc = "returned" =>
              /\ Len(handled.written) = 1
              /\ IF ~IsInteger(handled.param)
                 THEN handled.written[1].code = 400
                 ELSE IF handled.reply[1].err # NoErr
                 THEN handled.written[1].code = 500
                 ELSE /\ handled.written[1].code = 200
                      /\ handled.written[1].body = handled.reply[1].photo[1]

\* The id "1a" was answered with 400 and the service was not called.
C26_Witness ==
    /\ handled.pc = "returned"
    /\ handled.param = <<"1", "a">>
    /\ handled.calls = <<>>
    /\ handled.written = <<[code |-> 400, body |-> "error" :> "invalid id"]>>

\* The calls of pool.Close and of Shutdown that have returned.
CloseCalls == {j \in 1..Len(srv.trace) : srv.trace[j].call = "Close"}

ShutdownOkBefore(j) ==
    \E k \in 1..(j - 1) : srv.trace[k] = [call |-> "Shutdown", err |-> NoErr]

ShutdownErrored ==
    \E j \in 1..Len(srv.trace) :
        srv.trace[j].call = "Shutdown" /\ srv.trace[j].err # NoErr

\* runServer returns nil only after Shutdown and then pool.Close returned
\* without error, and the pool is never closed before Shutdown returned.
ShutdownThenClose ==
    /\ (srv.pc = "returned" /\ srv.ret = NoErr) =>
          srv.trace = <<[call |-> "Shutdown", err |-> NoErr],
                        [call |-> "Close", err |-> NoErr]>>
    /\ \A j \in CloseCalls : ShutdownOkBefore(j)

\* C30 as stated: ShutdownThenClose, and when ListenAndServe failed with
\* an error other than ErrServerClosed or Shutdown failed, runServer
\* returns an error and the pool was not closed.  Violated when the signal
\* wins the select: the error of ListenAndServe stays in errCh unread.
C30_Original ==
    srv.pc # "idle" =>
        /\ ShutdownThenClose
        /\ (srv.pc = "returned" /\
               (ShutdownErrored \/
                  (srv.listen = "returned" /\ srv.listenRet # ErrServerClosed))) =>
              (srv.ret # NoErr /\ CloseCalls = {})

\* C30: ShutdownThenClose, and when the select received from errCh an error
\* other than ErrServerClosed, or Shutdown failed, runServer returns an
\* error and the pool was not closed.  An error of ListenAndServe that
\* arrives when the signal has been taken is not read.
C30_ShutdownBeforePoolClose ==
    srv.pc # "idle" =>
        /\ ShutdownThenClose
        /\ (srv.pc = "returned" /\
               (ShutdownErrored \/
                  (srv.received # <<>> /\ srv.received[1] # NoErr
                     /\ srv.received[1] # ErrServerClosed))) =>
              (srv.ret # NoErr /\ CloseCalls = {})

\* After a signal the server was shut down, then the open pool was closed,
\* and runServer returned nil.
C30_Witness ==
    /\ srv.pc = "returned"
    /\ srv.pool = "open"
    /\ srv.received = <<>>
    /\ srv.listenRet = ErrServerClosed
    /\ srv.trace = <<[call |-> "Shutdown", err |-> NoErr],
                      [call |-> "Close", err |-> NoErr]>>
    /\ srv.ret = NoErr

====
